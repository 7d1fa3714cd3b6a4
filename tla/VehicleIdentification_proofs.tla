-------------------- MODULE VehicleIdentification_proofs --------------------
(***************************************************************************)
(* Proofs about VehicleIdentification for every set of detections, plates  *)
(* and requests and every number of visits.                                *)
(***************************************************************************)
EXTENDS VehicleIdentification, TLAPS

Lifecycle == {"DETECTED", "MATCHED", "NO_MATCH", "CONFIRMATION_REQUIRED", "CORRECTED",
              "CONFIRMED", "REJECTED"}
MaybePlate == Plate \cup {NoPlate}
DetectionRow == [lifecycle : Lifecycle, source : {"ANPR", "MANUAL"}, band : ConfidenceBand,
                 plate : MaybePlate, candidates : SUBSET Plate, corrected : MaybePlate,
                 selected : MaybePlate, vehicle : MaybePlate, visit : Nat]
Visit == [vehicle : MaybePlate, made : BOOLEAN]

\* A confirmation, and the part of it that has its visit already.
Confirming == {"create", "load", "identify", "store"}
WithVisit == {"load", "identify", "store"}
Job == [step : {"find", "match", "CORRECTED", "REJECTED"} \cup Confirming,
        detection : Detection, plate : MaybePlate,
        match : {"MATCHED", "CONFIRMATION_REQUIRED"}, vehicle : MaybePlate, visit : Nat]

There(row) == row.lifecycle # "none"
Sure(row) == row.source = "ANPR" /\ row.band \in {"LOW", "NONE"} => row.corrected # NoPlate

Types ==
    /\ detections \in [Detection -> {NoDetection} \cup DetectionRow]
    /\ registered \subseteq Plate
    /\ arrivals \in Seq(Visit)
    /\ operator \in [Operator -> {Waiting} \cup Job]

\* A detection names visits that exist.
RowsOK == \A d \in Detection : There(detections[d]) => detections[d].visit <= Len(arrivals)

\* So does a request, and its detection exists; one that confirms has found the
\* detection sure, one that corrects has a plate, so that what makes a detection
\* sure is never taken back.
JobsOK ==
    \A c \in Operator : LET job == operator[c] IN
        /\ job.step # "idle" => There(detections[job.detection])
        /\ job.step = "CORRECTED" => job.plate \in Plate
        /\ job.step \in Confirming => Sure(detections[job.detection]) /\ job.vehicle \in Plate
        /\ job.step \in WithVisit => job.visit \in 1..Len(arrivals)

\* A visit a confirmation has made is in the hands of that request alone ...
HeldAlone ==
    \A b, c \in Operator :
        /\ operator[b].step \in WithVisit /\ operator[c].step \in WithVisit
        /\ operator[b].visit = operator[c].visit /\ arrivals[operator[c].visit].made
        => b = c

\* ... and no detection names it before the request has identified it ...
Unnamed ==
    \A c \in Operator, d \in Detection :
        operator[c].step \in {"load", "identify"} /\ arrivals[operator[c].visit].made
            /\ There(detections[d])
        => detections[d].visit # operator[c].visit

\* ... when it has the vehicle that is about to be stored.
Identified ==
    \A c \in Operator : operator[c].step = "store" =>
        LET visit == arrivals[operator[c].visit] IN
        visit.vehicle # NoPlate /\ (visit.made => visit.vehicle = operator[c].vehicle)

IdentificationInv ==
    Types /\ RowsOK /\ JobsOK /\ HeldAlone /\ Unnamed /\ Identified /\ ConfirmedIsTrue
-----------------------------------------------------------------------------
\* A row that is there is a row of the table.
LEMMA RowThere == ASSUME Types, NEW d \in Detection, There(detections[d]) PROVE detections[d] \in DetectionRow
BY DEF Types, There, NoDetection

\* A request that does something has a job.
LEMMA JobThere ==
    ASSUME Types, NEW c \in Operator, operator[c].step # "idle"
    PROVE  operator[c] \in Job /\ operator[c].detection \in Detection
BY DEF Types, Waiting, Job

\* At the start no detection is there and no request is under way.
LEMMA IdentificationInitInv == IdentificationInit => IdentificationInv
<1> SUFFICES ASSUME IdentificationInit PROVE IdentificationInv OBVIOUS
<1>1. \A d \in Detection : ~There(detections[d]) /\ detections[d].lifecycle = "none"
  BY DEF IdentificationInit, There, NoDetection
<1>2. \A c \in Operator : operator[c].step = "idle" BY DEF IdentificationInit, Waiting
<1>3. Types BY DEF IdentificationInit, Types
<1>4. RowsOK /\ ConfirmedIsTrue BY <1>1 DEF RowsOK, ConfirmedIsTrue
<1>5. JobsOK BY <1>2 DEF JobsOK, Confirming, WithVisit
<1>6. HeldAlone /\ Unnamed /\ Identified BY <1>2 DEF HeldAlone, Unnamed, Identified, WithVisit
<1> QED BY <1>3, <1>4, <1>5, <1>6 DEF IdentificationInv

\* What every statement but the confirmation's makes of a row: it is not
\* confirmed by it, and what makes it sure, and its visit, stay.
Keeps(old, new) ==
    \/ new = old
    \/ /\ new \in DetectionRow /\ new.lifecycle # "CONFIRMED"
       /\ IF There(old)
          THEN /\ new.visit = old.visit /\ new.source = old.source /\ new.band = old.band
               /\ old.corrected # NoPlate => new.corrected # NoPlate
          ELSE new.visit = 0

\* A step of a request that leaves the visits alone, keeps the detections and
\* goes on with a job that confirms nothing.
LEMMA QuietStep ==
    ASSUME IdentificationInv, NEW c \in Operator, NEW job \in {Waiting} \cup Job,
           Does(c, job), UNCHANGED <<registered, arrivals>>,
           detections' \in [Detection -> {NoDetection} \cup DetectionRow],
           \A d \in Detection : Keeps(detections[d], detections'[d]),
           job.step \notin Confirming,
           job.step # "idle" => There(detections'[job.detection]),
           job.step = "CORRECTED" => job.plate \in Plate
    PROVE  IdentificationInv'
<1> USE DEF IdentificationInv
<1>1. Types' BY DEF Types, Does
<1>2. /\ operator'[c] = job
      /\ \A b \in Operator : b # c => operator'[b] = operator[b]
  BY DEF Types, Does
<1>3. \A b \in Operator : operator'[b].step \in Confirming => operator'[b] = operator[b] /\ b # c
  BY <1>2
<1>4. \A d \in Detection : There(detections[d]) => There(detections'[d])
  BY DEF Keeps, There, DetectionRow, Lifecycle
<1>5. \A d \in Detection : Sure(detections[d]) /\ There(detections[d]) => Sure(detections'[d])
  BY DEF Keeps, Sure
<1>6. \A d \in Detection : There(detections'[d]) =>
          detections'[d].visit = 0 \/ (There(detections[d]) /\ detections'[d].visit = detections[d].visit)
  BY DEF Keeps
<1>7. RowsOK' 
  <2>1. Len(arrivals) \in Nat BY DEF Types
  <2> QED BY <1>6, <2>1 DEF RowsOK
<1>8. JobsOK'
  <2> SUFFICES ASSUME NEW b \in Operator
               PROVE  /\ operator'[b].step # "idle" => There(detections'[operator'[b].detection])
                      /\ operator'[b].step = "CORRECTED" => operator'[b].plate \in Plate
                      /\ operator'[b].step \in Confirming =>
                            Sure(detections'[operator'[b].detection]) /\ operator'[b].vehicle \in Plate
                      /\ operator'[b].step \in WithVisit => operator'[b].visit \in 1..Len(arrivals)
    BY DEF JobsOK
  <2>1. CASE b = c BY <2>1, <1>2 DEF Confirming, WithVisit
  <2>2. CASE b # c /\ operator[b].step = "idle" BY <2>2, <1>2 DEF Confirming, WithVisit
  <2>3. CASE b # c /\ operator[b].step # "idle"
    <3>1. operator'[b] = operator[b] /\ operator[b].detection \in Detection BY <2>3, <1>2, JobThere
    <3>2. There(detections[operator[b].detection]) BY <2>3 DEF JobsOK
    <3> QED BY <3>1, <3>2, <1>4, <1>5 DEF JobsOK
  <2> QED BY <2>1, <2>2, <2>3
<1>9. WithVisit \subseteq Confirming BY DEF WithVisit, Confirming
<1>10. HeldAlone' BY <1>3, <1>9 DEF HeldAlone
<1>11. Unnamed'
  <2> SUFFICES ASSUME NEW b \in Operator, NEW d \in Detection,
                      operator'[b].step \in {"load", "identify"}, arrivals[operator'[b].visit].made,
                      There(detections'[d])
               PROVE  detections'[d].visit # operator'[b].visit
    BY DEF Unnamed
  <2>1. operator'[b] = operator[b] BY <1>3 DEF Confirming
  <2>2. operator[b].visit \in 1..Len(arrivals) BY <2>1 DEF JobsOK, WithVisit
  <2>3. Len(arrivals) \in Nat BY DEF Types
  <2>4. operator[b].visit # 0 BY <2>2, <2>3
  <2> QED BY <2>1, <2>4, <1>6 DEF Unnamed
<1>12. Identified' BY <1>3 DEF Identified, Confirming
<1>13. ConfirmedIsTrue'
  <2> SUFFICES ASSUME NEW d \in Detection, detections'[d].lifecycle = "CONFIRMED"
               PROVE  detections'[d] = detections[d]
    BY DEF ConfirmedIsTrue
  <2> QED BY DEF Keeps
<1> QED BY <1>1, <1>7, <1>8, <1>10, <1>11, <1>12, <1>13
-----------------------------------------------------------------------------
(* The statements that confirm nothing                                     *)

\* A detection that is made names no visit.
LEMMA DetectedInv ==
    ASSUME IdentificationInv, NEW c \in Operator, NEW d \in Detection,
           NEW source \in {"ANPR", "MANUAL"}, NEW band \in ConfidenceBand,
           NEW plate \in MaybePlate, NEW candidates \in SUBSET Plate,
           Detected(c, d, source, band, plate, candidates)
    PROVE  IdentificationInv'
<1> DEFINE row == [lifecycle |-> "DETECTED", source |-> source, band |-> band, plate |-> plate,
                   candidates |-> candidates, corrected |-> NoPlate, selected |-> NoPlate,
                   vehicle |-> NoPlate, visit |-> 0]
           job == [Task("find", d) EXCEPT !.plate = plate,
                      !.match = IF band = "HIGH" \/ source = "MANUAL" THEN "MATCHED"
                                ELSE "CONFIRMATION_REQUIRED"]
<1>1. row \in DetectionRow BY DEF DetectionRow, Lifecycle, MaybePlate
<1>2. job \in Job /\ job.step = "find" /\ job.detection = d BY DEF Task, Job, MaybePlate
<1>3. detections' = [detections EXCEPT ![d] = row] /\ detections[d] = NoDetection BY DEF Detected
<1>4. Types BY DEF IdentificationInv
<1>5. ~There(detections[d]) BY <1>3 DEF There, NoDetection
<1>6. \A e \in Detection : Keeps(detections[e], detections'[e])
  BY <1>1, <1>3, <1>4, <1>5 DEF Keeps, Types
<1>7. detections' \in [Detection -> {NoDetection} \cup DetectionRow] BY <1>1, <1>3, <1>4 DEF Types
<1>8. There(detections'[d]) BY <1>3, <1>4 DEF There, Types
<1>9. Does(c, job) /\ UNCHANGED <<registered, arrivals>> BY DEF Detected
<1> HIDE DEF row, job
<1> QED BY <1>2, <1>6, <1>7, <1>8, <1>9, QuietStep DEF Confirming

\* The lookup, and the load that starts a correction or a rejection, write
\* nothing.
LEMMA ReadOnlyInv ==
    ASSUME IdentificationInv, NEW c \in Operator, NEW job \in {Waiting} \cup Job, Does(c, job),
           UNCHANGED <<detections, registered, arrivals>>, job.step \notin Confirming,
           job.step # "idle" => There(detections[job.detection]),
           job.step = "CORRECTED" => job.plate \in Plate
    PROVE  IdentificationInv'
<1>1. \A e \in Detection : Keeps(detections[e], detections'[e]) BY DEF Keeps
<1>2. detections' \in [Detection -> {NoDetection} \cup DetectionRow] BY DEF IdentificationInv, Types
<1> QED BY <1>1, <1>2, QuietStep

LEMMA FindVehicleInv ==
    ASSUME IdentificationInv, NEW c \in Operator, FindVehicle(c) PROVE IdentificationInv'
<1> DEFINE job == [operator[c] EXCEPT !.step = "match", !.vehicle = Known(operator[c].plate)]
<1>1. Types /\ JobsOK BY DEF IdentificationInv
<1>2. operator[c].step = "find" BY DEF FindVehicle
<1>3. operator[c] \in Job BY <1>1, <1>2, JobThere
<1>4. Known(operator[c].plate) \in MaybePlate BY <1>1 DEF Known, MaybePlate, Types
<1>5. job \in Job /\ job.step = "match" /\ job.detection = operator[c].detection
  BY <1>3, <1>4 DEF Job
<1>6. There(detections[job.detection]) BY <1>1, <1>2, <1>5 DEF JobsOK
<1>7. Does(c, job) /\ UNCHANGED <<detections, registered, arrivals>> BY DEF FindVehicle
<1> HIDE DEF job
<1> QED BY <1>5, <1>6, <1>7, ReadOnlyInv DEF Confirming

LEMMA LoadForChangeInv ==
    ASSUME IdentificationInv, NEW c \in Operator, NEW d \in Detection,
           NEW to \in {"CORRECTED", "REJECTED"}, NEW plate \in MaybePlate,
           to = "CORRECTED" => plate \in Plate,
           LoadForChange(c, d, to, plate)
    PROVE  IdentificationInv'
<1> DEFINE job == [Task(to, d) EXCEPT !.plate = plate]
<1>1. job \in Job /\ job.step = to /\ job.detection = d /\ job.plate = plate
  BY DEF Task, Job, MaybePlate
<1>2. Types BY DEF IdentificationInv
<1>3. There(detections[d]) BY <1>2 DEF LoadForChange, Types, There, DetectionRow, Lifecycle
<1>4. Does(c, job) /\ UNCHANGED <<detections, registered, arrivals>> BY DEF LoadForChange
<1> HIDE DEF job
<1> QED BY <1>1, <1>3, <1>4, ReadOnlyInv DEF Confirming

LEMMA CutOffInv ==
    ASSUME IdentificationInv, NEW c \in Operator, Done(c),
           UNCHANGED <<detections, registered, arrivals>>
    PROVE  IdentificationInv'
<1>1. Does(c, Waiting) BY DEF Done
<1> QED BY <1>1, ReadOnlyInv DEF Waiting, Confirming

\* A statement that rewrites a detection which is there.
LEMMA RewriteInv ==
    ASSUME IdentificationInv, NEW c \in Operator, NEW d \in Detection, NEW row \in DetectionRow,
           NEW job \in {Waiting} \cup Job, Does(c, job), UNCHANGED <<registered, arrivals>>,
           detections' = [detections EXCEPT ![d] = row], Keeps(detections[d], row),
           job.step \notin Confirming \cup {"CORRECTED"}, job.step # "idle" => job.detection = d
    PROVE  IdentificationInv'
<1>1. Types BY DEF IdentificationInv
<1>2. \A e \in Detection : Keeps(detections[e], detections'[e]) BY <1>1 DEF Keeps, Types
<1>3. detections' \in [Detection -> {NoDetection} \cup DetectionRow] BY <1>1 DEF Types
<1>4. There(detections'[d]) BY <1>1 DEF There, Types, DetectionRow, Lifecycle
<1> QED BY <1>2, <1>3, <1>4, QuietStep

LEMMA FinalizeLookupInv ==
    ASSUME IdentificationInv, NEW c \in Operator, FinalizeLookup(c) PROVE IdentificationInv'
<1> DEFINE d == operator[c].detection
           to == IF operator[c].plate = NoPlate THEN "DETECTED"
                 ELSE IF operator[c].vehicle = NoPlate THEN "NO_MATCH" ELSE operator[c].match
           row == [detections[d] EXCEPT !.vehicle = operator[c].vehicle, !.lifecycle = to]
<1>1. Types /\ JobsOK BY DEF IdentificationInv
<1>2. operator[c].step = "match" BY DEF FinalizeLookup
<1>3. operator[c] \in Job /\ d \in Detection BY <1>1, <1>2, JobThere
<1>4. There(detections[d]) /\ detections[d] \in DetectionRow BY <1>1, <1>2, <1>3, RowThere DEF JobsOK
<1>5. to \in Lifecycle \ {"CONFIRMED"} /\ operator[c].vehicle \in MaybePlate
  BY <1>3 DEF Job, Lifecycle
<1>6. row \in DetectionRow /\ Keeps(detections[d], row) BY <1>4, <1>5 DEF DetectionRow, Keeps
<1>7. /\ detections' = [detections EXCEPT ![d] = row]
      /\ Does(c, Waiting) /\ UNCHANGED <<registered, arrivals>>
  BY DEF FinalizeLookup, Done
<1>8. Waiting.step = "idle" BY DEF Waiting
<1> HIDE DEF d, row
<1> QED BY <1>3, <1>6, <1>7, <1>8, RewriteInv DEF Confirming

LEMMA CorrectDetectionInv ==
    ASSUME IdentificationInv, NEW c \in Operator, CorrectDetection(c) PROVE IdentificationInv'
<1> DEFINE d == operator[c].detection
           row == [detections[d] EXCEPT !.lifecycle = "CORRECTED",
                      !.corrected = operator[c].plate, !.selected = operator[c].plate]
           job == [operator[c] EXCEPT !.step = "find"]
<1>1. Types /\ JobsOK BY DEF IdentificationInv
<1>2. operator[c].step = "CORRECTED" BY DEF CorrectDetection
<1>3. operator[c] \in Job /\ d \in Detection /\ operator[c].plate \in Plate
  BY <1>1, <1>2, JobThere DEF JobsOK
<1>4. There(detections[d]) /\ detections[d] \in DetectionRow BY <1>1, <1>2, <1>3, RowThere DEF JobsOK
<1>5. row \in DetectionRow BY <1>3, <1>4 DEF DetectionRow, MaybePlate, Lifecycle
<1>6. Keeps(detections[d], row)
  BY <1>3, <1>4, <1>5, IdentificationAssumption DEF DetectionRow, Keeps
<1>7. job \in Job /\ job.step = "find" /\ job.detection = d BY <1>3 DEF Job
<1>8. /\ detections' = [detections EXCEPT ![d] = row]
      /\ Does(c, job) /\ UNCHANGED <<registered, arrivals>>
  BY DEF CorrectDetection
<1> HIDE DEF d, row, job
<1> QED BY <1>3, <1>5, <1>6, <1>7, <1>8, RewriteInv DEF Confirming

LEMMA RejectDetectionInv ==
    ASSUME IdentificationInv, NEW c \in Operator, RejectDetection(c) PROVE IdentificationInv'
<1> DEFINE d == operator[c].detection
           row == [detections[d] EXCEPT !.lifecycle = "REJECTED"]
<1>1. Types /\ JobsOK BY DEF IdentificationInv
<1>2. operator[c].step = "REJECTED" BY DEF RejectDetection
<1>3. d \in Detection BY <1>1, <1>2, JobThere
<1>4. There(detections[d]) /\ detections[d] \in DetectionRow BY <1>1, <1>2, <1>3, RowThere DEF JobsOK
<1>5. row \in DetectionRow /\ Keeps(detections[d], row) BY <1>4 DEF DetectionRow, Keeps, Lifecycle
<1>6. /\ detections' = [detections EXCEPT ![d] = row]
      /\ Does(c, Waiting) /\ UNCHANGED <<registered, arrivals>>
  BY DEF RejectDetection, Done
<1>7. Waiting.step = "idle" BY DEF Waiting
<1> HIDE DEF d, row
<1> QED BY <1>3, <1>5, <1>6, <1>7, RewriteInv DEF Confirming
-----------------------------------------------------------------------------
(* The statements of a confirmation                                        *)

\* A step of a confirmation that writes no row: what is said of the rows and
\* of the requests that confirm nothing goes on to hold.
LEMMA JobsStayOK ==
    ASSUME IdentificationInv, NEW c \in Operator, NEW job \in Job, Does(c, job),
           UNCHANGED detections, Len(arrivals) <= Len(arrivals'), Len(arrivals') \in Nat,
           job.step \in Confirming, There(detections[job.detection]),
           Sure(detections[job.detection]), job.vehicle \in Plate,
           job.step \in WithVisit => job.visit \in 1..Len(arrivals')
    PROVE  RowsOK' /\ JobsOK'
<1>1. Types /\ RowsOK /\ JobsOK BY DEF IdentificationInv
<1>2. /\ operator'[c] = job
      /\ \A b \in Operator : b # c => operator'[b] = operator[b]
  BY <1>1 DEF Types, Does
<1>3. Len(arrivals) \in Nat BY <1>1 DEF Types
<1>4. RowsOK'
  <2> SUFFICES ASSUME NEW d \in Detection, There(detections[d])
               PROVE  detections[d].visit <= Len(arrivals')
    BY DEF RowsOK
  <2>1. detections[d].visit \in Nat BY <1>1, RowThere DEF DetectionRow
  <2> QED BY <1>1, <1>3, <2>1 DEF RowsOK
<1>5. job.step \in Confirming => job.step # "idle" /\ job.step # "CORRECTED" BY DEF Confirming
<1>6. \A b \in Operator : operator[b].step \in WithVisit => operator[b].visit \in 1..Len(arrivals')
  BY <1>1, <1>3 DEF JobsOK
<1> QED BY <1>1, <1>2, <1>4, <1>5, <1>6 DEF JobsOK

LEMMA LoadForConfirmationInv ==
    ASSUME IdentificationInv, NEW c \in Operator, NEW d \in Detection, NEW vehicle \in Plate,
           NEW visit \in 0..Len(arrivals), visit # 0 => ~arrivals[visit].made,
           LoadForConfirmation(c, d, vehicle, visit)
    PROVE  IdentificationInv'
<1> DEFINE step == IF visit = 0 THEN "create" ELSE "load"
           job == [Task(step, d) EXCEPT !.vehicle = vehicle, !.visit = visit]
<1>1. Types /\ HeldAlone /\ Unnamed /\ Identified /\ ConfirmedIsTrue BY DEF IdentificationInv
<1>2. Len(arrivals) \in Nat BY <1>1 DEF Types
<1>3. /\ step \in {"create", "load"} /\ visit \in Nat
      /\ step = "load" => visit # 0 /\ visit \in 1..Len(arrivals)
  BY <1>2
<1>4. /\ job \in Job /\ job.step = step /\ job.detection = d /\ job.vehicle = vehicle
      /\ job.visit = visit
  BY <1>2, <1>3 DEF Task, Job, Confirming, MaybePlate
<1>5. There(detections[d]) BY DEF LoadForConfirmation, There
<1>6. Sure(detections[d]) BY DEF LoadForConfirmation, Sure, canConfirmWithoutCorrection
<1>7. Does(c, job) /\ UNCHANGED <<detections, registered, arrivals>> BY DEF LoadForConfirmation
<1> HIDE DEF step, job
<1>8. Types' BY <1>1, <1>4, <1>7 DEF Types, Does
<1>9. RowsOK' /\ JobsOK'
  BY <1>2, <1>3, <1>4, <1>5, <1>6, <1>7, JobsStayOK DEF Confirming, WithVisit
<1>10. /\ operator'[c] = job
       /\ \A b \in Operator : b # c => operator'[b] = operator[b]
  BY <1>1, <1>7 DEF Types, Does
<1>11. operator'[c].step \in WithVisit => operator'[c].step = "load" /\ ~arrivals[operator'[c].visit].made
  BY <1>3, <1>4, <1>10 DEF WithVisit
<1>12. HeldAlone' BY <1>1, <1>7, <1>10, <1>11 DEF HeldAlone
<1>13. Unnamed' BY <1>1, <1>7, <1>10, <1>11 DEF Unnamed, WithVisit
<1>14. Identified' BY <1>1, <1>7, <1>10, <1>11 DEF Identified, WithVisit
<1>15. ConfirmedIsTrue' BY <1>1, <1>7 DEF ConfirmedIsTrue
<1> QED BY <1>8, <1>9, <1>12, <1>13, <1>14, <1>15 DEF IdentificationInv

\* A visit that is added changes nothing of those before it.
LEMMA AppendVisit ==
    ASSUME Types, NEW visit \in Visit, arrivals' = Append(arrivals, visit)
    PROVE  /\ arrivals' \in Seq(Visit) /\ Len(arrivals) \in Nat /\ Len(arrivals') = Len(arrivals) + 1
           /\ \A v \in 1..Len(arrivals) : arrivals'[v] = arrivals[v]
           /\ arrivals'[Len(arrivals')] = visit
BY DEF Types

\* Nor of what is said of them.
LEMMA OldVisits ==
    ASSUME IdentificationInv, NEW visit \in Visit, arrivals' = Append(arrivals, visit)
    PROVE  /\ \A c \in Operator : operator[c].step \in WithVisit
                  => arrivals'[operator[c].visit] = arrivals[operator[c].visit]
           /\ UNCHANGED detections => ConfirmedIsTrue'
<1>1. Types /\ RowsOK /\ JobsOK /\ ConfirmedIsTrue BY DEF IdentificationInv
<1>2. \A v \in 1..Len(arrivals) : arrivals'[v] = arrivals[v] BY <1>1, AppendVisit
<1>3. \A c \in Operator : operator[c].step \in WithVisit
          => arrivals'[operator[c].visit] = arrivals[operator[c].visit]
  BY <1>1, <1>2 DEF JobsOK
<1>4. ASSUME UNCHANGED detections, NEW d \in Detection, detections[d].lifecycle = "CONFIRMED"
      PROVE  arrivals'[detections[d].visit] = arrivals[detections[d].visit]
  <2>1. There(detections[d]) BY <1>4 DEF There
  <2>2. detections[d].visit \in Nat BY <1>1, <2>1, RowThere DEF DetectionRow
  <2>3. detections[d].visit <= Len(arrivals) /\ detections[d].visit # 0
    BY <1>1, <1>4, <2>1 DEF RowsOK, ConfirmedIsTrue
  <2>4. Len(arrivals) \in Nat BY <1>1 DEF Types
  <2> QED BY <1>2, <2>2, <2>3, <2>4
<1> QED BY <1>1, <1>3, <1>4 DEF ConfirmedIsTrue

\* The visit that is made is new: nobody else has it, and no row names it.
LEMMA CreateVisitInv ==
    ASSUME IdentificationInv, NEW c \in Operator, CreateVisit(c) PROVE IdentificationInv'
<1> DEFINE visit == [vehicle |-> NoPlate, made |-> TRUE]
           job == [operator[c] EXCEPT !.step = "load", !.visit = Len(arrivals')]
<1>1. Types /\ RowsOK /\ JobsOK /\ HeldAlone /\ Unnamed /\ Identified BY DEF IdentificationInv
<1>2. visit \in Visit /\ arrivals' = Append(arrivals, visit) /\ UNCHANGED <<detections, registered>>
  BY DEF CreateVisit, Visit, MaybePlate
<1> HIDE DEF visit
<1>3. /\ arrivals' \in Seq(Visit) /\ Len(arrivals) \in Nat /\ Len(arrivals') = Len(arrivals) + 1
      /\ ConfirmedIsTrue'
      /\ \A b \in Operator : operator[b].step \in WithVisit
            => arrivals'[operator[b].visit] = arrivals[operator[b].visit]
  BY <1>1, <1>2, AppendVisit, OldVisits
<1>4. operator[c].step = "create" BY DEF CreateVisit
<1>5. operator[c] \in Job BY <1>1, <1>4, JobThere
<1>6. /\ job \in Job /\ job.step = "load" /\ job.visit = Len(arrivals')
      /\ job.detection = operator[c].detection /\ job.vehicle = operator[c].vehicle
  <2>1. Len(arrivals') \in Nat BY <1>3
  <2> QED BY <1>5, <2>1 DEF Job, Confirming
<1>7. /\ There(detections[job.detection]) /\ Sure(detections[job.detection])
      /\ job.vehicle \in Plate
  BY <1>1, <1>4, <1>6 DEF JobsOK, Confirming
<1>8. Does(c, job) BY DEF CreateVisit
<1> HIDE DEF job
<1>9. Types' BY <1>1, <1>2, <1>3, <1>6, <1>8 DEF Types, Does
<1>10. job.visit \in 1..Len(arrivals') BY <1>3, <1>6
<1>11. RowsOK' /\ JobsOK'
  BY <1>2, <1>3, <1>6, <1>7, <1>8, <1>10, JobsStayOK DEF Confirming
<1>12. /\ operator'[c] = job
       /\ \A b \in Operator : b # c => operator'[b] = operator[b]
  BY <1>1, <1>8 DEF Types, Does
<1>13. \A b \in Operator : operator[b].step \in WithVisit => operator[b].visit # job.visit
  BY <1>1, <1>3, <1>6 DEF JobsOK
<1>14. \A d \in Detection : There(detections[d]) => detections[d].visit # job.visit
  <2> SUFFICES ASSUME NEW d \in Detection, There(detections[d]) PROVE detections[d].visit # job.visit
    OBVIOUS
  <2>1. detections[d].visit \in Nat BY <1>1, RowThere DEF DetectionRow
  <2> QED BY <1>1, <1>3, <1>6, <2>1 DEF RowsOK
<1>15. HeldAlone' BY <1>1, <1>3, <1>12, <1>13 DEF HeldAlone
<1>16. Unnamed'
  <2> SUFFICES ASSUME NEW b \in Operator, NEW d \in Detection, There(detections[d]),
                      operator'[b].step \in {"load", "identify"}, arrivals'[operator'[b].visit].made
               PROVE  detections[d].visit # operator'[b].visit
    BY <1>2 DEF Unnamed
  <2>1. CASE b = c BY <2>1, <1>12, <1>14
  <2>2. CASE b # c
    <3>1. operator'[b] = operator[b] /\ operator[b].step \in WithVisit BY <2>2, <1>12 DEF WithVisit
    <3> QED BY <3>1, <1>1, <1>3 DEF Unnamed
  <2> QED BY <2>1, <2>2
<1>17. Identified' BY <1>1, <1>3, <1>6, <1>12 DEF Identified, WithVisit
<1> QED BY <1>3, <1>9, <1>11, <1>15, <1>16, <1>17 DEF IdentificationInv

LEMMA LoadVisitInv ==
    ASSUME IdentificationInv, NEW c \in Operator, LoadVisit(c) PROVE IdentificationInv'
<1> DEFINE job == [operator[c] EXCEPT !.step = "identify"]
<1>1. CASE Done(c) BY <1>1, CutOffInv DEF LoadVisit
<1>2. CASE Does(c, job)
  <2>1. Types /\ JobsOK /\ HeldAlone /\ Unnamed /\ Identified /\ ConfirmedIsTrue BY DEF IdentificationInv
  <2>2. operator[c].step = "load" /\ UNCHANGED <<detections, registered, arrivals>> BY DEF LoadVisit
  <2>3. operator[c] \in Job BY <2>1, <2>2, JobThere
  <2>4. /\ job \in Job /\ job.step = "identify" /\ job.visit = operator[c].visit
        /\ job.detection = operator[c].detection /\ job.vehicle = operator[c].vehicle
    BY <2>3 DEF Job, Confirming
  <2>5. /\ There(detections[job.detection]) /\ Sure(detections[job.detection])
        /\ job.vehicle \in Plate /\ job.visit \in 1..Len(arrivals)
    BY <2>1, <2>2, <2>4 DEF JobsOK, Confirming, WithVisit
  <2>6. Len(arrivals) \in Nat BY <2>1 DEF Types
  <2> HIDE DEF job
  <2>7. Types' BY <1>2, <2>1, <2>2, <2>4 DEF Types, Does
  <2>8. RowsOK' /\ JobsOK' BY <1>2, <2>2, <2>4, <2>5, <2>6, JobsStayOK DEF Confirming
  <2>9. /\ operator'[c] = job
        /\ \A b \in Operator : b # c => operator'[b] = operator[b]
    BY <1>2, <2>1 DEF Types, Does
  <2>10. HeldAlone' BY <2>1, <2>2, <2>4, <2>9 DEF HeldAlone, WithVisit
  <2>11. Unnamed' BY <2>1, <2>2, <2>4, <2>9 DEF Unnamed
  <2>12. Identified' BY <2>1, <2>2, <2>4, <2>9 DEF Identified
  <2> QED BY <2>1, <2>2, <2>7, <2>8, <2>10, <2>11, <2>12 DEF IdentificationInv, ConfirmedIsTrue
<1> QED BY <1>1, <1>2 DEF LoadVisit

\* The one request that has a visit a confirmation made is the one that
\* identifies it.
LEMMA IdentifyTransactionInv ==
    ASSUME IdentificationInv, NEW c \in Operator, IdentifyTransaction(c) PROVE IdentificationInv'
<1> DEFINE v == operator[c].visit
           vehicle == operator[c].vehicle
           job == [operator[c] EXCEPT !.step = "store"]
<1>1. Types /\ RowsOK /\ JobsOK /\ HeldAlone /\ Unnamed /\ Identified /\ ConfirmedIsTrue
  BY DEF IdentificationInv
<1>2. operator[c].step = "identify" /\ UNCHANGED <<detections, registered>> /\ Does(c, job)
  BY DEF IdentifyTransaction
<1>3. operator[c] \in Job BY <1>1, <1>2, JobThere
<1>4. v \in 1..Len(arrivals) /\ vehicle \in Plate BY <1>1, <1>2 DEF JobsOK, WithVisit, Confirming
<1>5. arrivals' = [arrivals EXCEPT ![v].vehicle = vehicle] BY DEF IdentifyTransaction
<1>6. /\ arrivals' \in Seq(Visit) /\ Len(arrivals') = Len(arrivals) /\ Len(arrivals) \in Nat
      /\ \A w \in 1..Len(arrivals) : w # v => arrivals'[w] = arrivals[w]
      /\ arrivals'[v].vehicle = vehicle /\ arrivals'[v].made = arrivals[v].made
  <2>1. arrivals[v] \in Visit /\ Len(arrivals) \in Nat BY <1>1, <1>4 DEF Types
  <2>2. [arrivals[v] EXCEPT !.vehicle = vehicle] \in Visit BY <2>1, <1>4 DEF Visit, MaybePlate
  <2> QED BY <1>1, <1>4, <1>5, <2>1, <2>2 DEF Types, Visit
<1>7. vehicle # NoPlate BY <1>4, IdentificationAssumption
<1>8. /\ job \in Job /\ job.step = "store" /\ job.visit = v
      /\ job.detection = operator[c].detection /\ job.vehicle = vehicle
  BY <1>3 DEF Job, Confirming
<1>9. There(detections[job.detection]) /\ Sure(detections[job.detection])
  BY <1>1, <1>2, <1>8 DEF JobsOK, Confirming
<1> HIDE DEF job
<1>10. Types' BY <1>1, <1>2, <1>6, <1>8 DEF Types, Does
<1>11. RowsOK' /\ JobsOK'
  BY <1>2, <1>4, <1>6, <1>8, <1>9, JobsStayOK DEF Confirming
<1>12. /\ operator'[c] = job
       /\ \A b \in Operator : b # c => operator'[b] = operator[b]
  BY <1>1, <1>2 DEF Types, Does
<1>13. \A b \in Operator : operator[b].step \in WithVisit =>
          /\ operator[b].visit \in 1..Len(arrivals)
          /\ arrivals'[operator[b].visit].made = arrivals[operator[b].visit].made
  BY <1>1, <1>6 DEF JobsOK
<1>14. c \in Operator /\ operator[c].step \in WithVisit BY <1>2 DEF WithVisit
<1>15. HeldAlone' BY <1>1, <1>8, <1>12, <1>13, <1>14 DEF HeldAlone
<1>16. Unnamed'
  <2> SUFFICES ASSUME NEW b \in Operator, NEW d \in Detection, There(detections[d]),
                      operator'[b].step \in {"load", "identify"}, arrivals'[operator'[b].visit].made
               PROVE  detections[d].visit # operator'[b].visit
    BY <1>2 DEF Unnamed
  <2>1. b # c /\ operator'[b] = operator[b] BY <1>8, <1>12
  <2>2. arrivals[operator[b].visit].made BY <2>1, <1>13 DEF WithVisit
  <2> QED BY <2>1, <2>2, <1>1 DEF Unnamed
<1>17. Identified'
  <2> SUFFICES ASSUME NEW b \in Operator, operator'[b].step = "store"
               PROVE  LET w == operator'[b].visit IN
                      /\ arrivals'[w].vehicle # NoPlate
                      /\ arrivals'[w].made => arrivals'[w].vehicle = operator'[b].vehicle
    BY DEF Identified
  <2>1. CASE b = c BY <2>1, <1>6, <1>7, <1>8, <1>12
  <2>2. CASE b # c
    <3>1. operator'[b] = operator[b] /\ operator[b].step \in WithVisit BY <2>2, <1>12 DEF WithVisit
    <3>2. CASE operator[b].visit = v
      <4>1. ~arrivals[v].made BY <1>1, <1>14, <2>2, <3>1, <3>2 DEF HeldAlone
      <4> QED BY <4>1, <3>1, <3>2, <1>6, <1>7
    <3>3. CASE operator[b].visit # v
      BY <1>1, <1>6, <1>13, <3>1, <3>3 DEF Identified
    <3> QED BY <3>2, <3>3
  <2> QED BY <2>1, <2>2
<1>18. ConfirmedIsTrue'
  <2> SUFFICES ASSUME NEW d \in Detection, detections[d].lifecycle = "CONFIRMED"
               PROVE  LET row == detections[d] IN
                      /\ row.visit # 0 /\ arrivals'[row.visit].vehicle # NoPlate
                      /\ arrivals'[row.visit].made => arrivals'[row.visit].vehicle = row.vehicle
                      /\ row.source = "ANPR" /\ row.band \in {"LOW", "NONE"} => row.corrected # NoPlate
    BY <1>2 DEF ConfirmedIsTrue
  <2>1. There(detections[d]) BY DEF There
  <2>2. detections[d].visit \in Nat BY <1>1, <2>1, RowThere DEF DetectionRow
  <2>3. detections[d].visit \in 1..Len(arrivals)
    BY <1>1, <1>6, <2>1, <2>2 DEF RowsOK, ConfirmedIsTrue
  <2>4. CASE detections[d].visit = v
    <3>1. ~arrivals[v].made BY <1>1, <1>2, <2>1, <2>4 DEF Unnamed
    <3> QED BY <3>1, <2>4, <1>1, <1>6, <1>7 DEF ConfirmedIsTrue
  <2>5. CASE detections[d].visit # v
    BY <1>1, <1>6, <2>3, <2>5 DEF ConfirmedIsTrue
  <2> QED BY <2>4, <2>5
<1> QED BY <1>10, <1>11, <1>15, <1>16, <1>17, <1>18 DEF IdentificationInv

LEMMA StoreConfirmationInv ==
    ASSUME IdentificationInv, NEW c \in Operator, StoreConfirmation(c) PROVE IdentificationInv'
<1> DEFINE d == operator[c].detection
           v == operator[c].visit
           vehicle == operator[c].vehicle
           row == [detections[d] EXCEPT !.lifecycle = "CONFIRMED", !.vehicle = vehicle,
                                        !.visit = v, !.selected = vehicle]
<1>1. Types /\ RowsOK /\ JobsOK /\ HeldAlone /\ Unnamed /\ Identified /\ ConfirmedIsTrue
  BY DEF IdentificationInv
<1>2. /\ operator[c].step = "store" /\ UNCHANGED <<arrivals, registered>> /\ Does(c, Waiting)
      /\ detections' = [detections EXCEPT ![d] = row]
  BY DEF StoreConfirmation, Done
<1>3. operator[c] \in Job /\ d \in Detection BY <1>1, <1>2, JobThere
<1>4. v \in 1..Len(arrivals) /\ vehicle \in Plate /\ There(detections[d]) /\ Sure(detections[d])
  BY <1>1, <1>2 DEF JobsOK, WithVisit, Confirming
<1>5. detections[d] \in DetectionRow BY <1>1, <1>3, <1>4, RowThere
<1>6. Len(arrivals) \in Nat /\ v \in Nat BY <1>1, <1>4 DEF Types
<1>7. /\ row \in DetectionRow /\ row.visit = v /\ row.vehicle = vehicle /\ row.source = detections[d].source
      /\ row.band = detections[d].band /\ row.corrected = detections[d].corrected
      /\ row.lifecycle = "CONFIRMED"
  BY <1>4, <1>5, <1>6 DEF DetectionRow, Lifecycle, MaybePlate
<1>8. There(row) /\ Sure(row) BY <1>4, <1>7 DEF There, Sure
<1> HIDE DEF row
<1>9. /\ detections'[d] = row
      /\ \A e \in Detection : e # d => detections'[e] = detections[e]
  BY <1>1, <1>2, <1>3 DEF Types
<1>10. /\ operator'[c] = Waiting /\ Waiting.step = "idle"
       /\ \A b \in Operator : b # c => operator'[b] = operator[b]
  BY <1>1, <1>2 DEF Types, Does, Waiting
<1>11. Types' BY <1>1, <1>2, <1>3, <1>7 DEF Types, Does
<1>12. RowsOK' BY <1>1, <1>2, <1>4, <1>6, <1>7, <1>9 DEF RowsOK
<1>13. JobsOK'
  <2> SUFFICES ASSUME NEW b \in Operator, b # c
               PROVE  /\ operator[b].step # "idle" => There(detections'[operator[b].detection])
                      /\ operator[b].step = "CORRECTED" => operator[b].plate \in Plate
                      /\ operator[b].step \in Confirming =>
                            Sure(detections'[operator[b].detection]) /\ operator[b].vehicle \in Plate
                      /\ operator[b].step \in WithVisit => operator[b].visit \in 1..Len(arrivals)
    BY <1>2, <1>10 DEF JobsOK, Confirming, WithVisit
  <2>1. CASE operator[b].step = "idle" BY <2>1 DEF Confirming, WithVisit
  <2>2. CASE operator[b].step # "idle"
    <3>1. operator[b].detection \in Detection BY <1>1, <2>2, JobThere
    <3> QED BY <1>1, <1>8, <1>9, <2>2, <3>1 DEF JobsOK
  <2> QED BY <2>1, <2>2
<1>14. HeldAlone' BY <1>1, <1>2, <1>10 DEF HeldAlone, WithVisit
<1>15. Unnamed'
  <2> SUFFICES ASSUME NEW b \in Operator, NEW e \in Detection, There(detections'[e]),
                      operator'[b].step \in {"load", "identify"}, arrivals[operator'[b].visit].made
               PROVE  detections'[e].visit # operator'[b].visit
    BY <1>2 DEF Unnamed
  <2>1. b # c /\ operator'[b] = operator[b] BY <1>10
  <2>2. operator[b].step \in WithVisit /\ operator[c].step \in WithVisit BY <1>2, <2>1 DEF WithVisit
  <2>3. operator[b].visit # v BY <1>1, <2>1, <2>2 DEF HeldAlone
  <2>4. CASE e = d BY <2>1, <2>3, <2>4, <1>7, <1>9
  <2>5. CASE e # d BY <2>1, <2>5, <1>1, <1>9 DEF Unnamed
  <2> QED BY <2>4, <2>5
<1>16. Identified' BY <1>1, <1>2, <1>10 DEF Identified
<1>17. ConfirmedIsTrue'
  <2>1. arrivals[v].vehicle # NoPlate /\ (arrivals[v].made => arrivals[v].vehicle = vehicle)
    BY <1>1, <1>2 DEF Identified
  <2>2. v # 0 BY <1>4, <1>6
  <2> QED BY <1>1, <1>2, <1>7, <1>8, <1>9, <2>1, <2>2 DEF ConfirmedIsTrue, Sure
<1> QED BY <1>11, <1>12, <1>13, <1>14, <1>15, <1>16, <1>17 DEF IdentificationInv
-----------------------------------------------------------------------------
\* A visit opened at the gate is in nobody's hands.
LEMMA OpenVisitInv == ASSUME IdentificationInv, OpenVisit PROVE IdentificationInv'
<1> DEFINE visit == [vehicle |-> NoPlate, made |-> FALSE]
<1>1. Types /\ RowsOK /\ JobsOK /\ HeldAlone /\ Unnamed /\ Identified BY DEF IdentificationInv
<1>2. /\ visit \in Visit /\ arrivals' = Append(arrivals, visit)
      /\ UNCHANGED <<detections, registered, operator>>
  BY DEF OpenVisit, Visit, MaybePlate
<1> HIDE DEF visit
<1>3. /\ arrivals' \in Seq(Visit) /\ Len(arrivals) \in Nat /\ Len(arrivals') = Len(arrivals) + 1
      /\ ConfirmedIsTrue'
      /\ \A b \in Operator : operator[b].step \in WithVisit
            => arrivals'[operator[b].visit] = arrivals[operator[b].visit]
  BY <1>1, <1>2, AppendVisit, OldVisits
<1>4. Types' BY <1>1, <1>2, <1>3 DEF Types
<1>5. RowsOK'
  <2> SUFFICES ASSUME NEW d \in Detection, There(detections[d])
               PROVE  detections[d].visit <= Len(arrivals')
    BY <1>2 DEF RowsOK
  <2>1. detections[d].visit \in Nat BY <1>1, RowThere DEF DetectionRow
  <2> QED BY <1>1, <1>3, <2>1 DEF RowsOK
<1>6. \A v \in 1..Len(arrivals) : v \in 1..Len(arrivals') BY <1>3
<1>7. JobsOK' BY <1>1, <1>2, <1>6 DEF JobsOK
<1>8. HeldAlone' BY <1>1, <1>2, <1>3 DEF HeldAlone
<1>9. Unnamed' BY <1>1, <1>2, <1>3 DEF Unnamed, WithVisit
<1>10. Identified' BY <1>1, <1>2, <1>3 DEF Identified, WithVisit
<1> QED BY <1>3, <1>4, <1>5, <1>7, <1>8, <1>9, <1>10 DEF IdentificationInv

\* Registering a vehicle touches nothing a confirmation has relied on.
LEMMA RegisterVehicleInv ==
    ASSUME IdentificationInv, NEW p \in Plate, RegisterVehicle(p) PROVE IdentificationInv'
<1>1. UNCHANGED <<detections, arrivals, operator>> /\ registered' \subseteq Plate
  BY DEF RegisterVehicle, IdentificationInv, Types
<1> QED BY <1>1 DEF IdentificationInv, Types, RowsOK, JobsOK, HeldAlone, Unnamed, Identified, ConfirmedIsTrue

LEMMA OperatorStepsInv ==
    ASSUME IdentificationInv, NEW c \in Operator, OperatorSteps(c) PROVE IdentificationInv'
<1>1. ASSUME NEW d \in Detection, RecognizeCamera(c, d) PROVE IdentificationInv'
  <2>1. CASE Detected(c, d, "ANPR", "NONE", NoPlate, {})
    BY <2>1, DetectedInv DEF ConfidenceBand, MaybePlate
  <2>2. ASSUME NEW band \in ConfidenceBand, NEW p \in Plate, NEW others \in SUBSET Plate,
               Detected(c, d, "ANPR", band, p, {p} \cup others)
        PROVE  IdentificationInv'
    <3>1. p \in MaybePlate /\ {p} \cup others \in SUBSET Plate BY DEF MaybePlate
    <3> QED BY <2>2, <3>1, DetectedInv
  <2> QED BY <1>1, <2>1, <2>2 DEF RecognizeCamera
<1>2. ASSUME NEW d \in Detection, ManualIdentify(c, d) PROVE IdentificationInv'
  <2>1. PICK p \in Plate : Detected(c, d, "MANUAL", "NONE", p, {}) BY <1>2 DEF ManualIdentify
  <2> QED BY <2>1, DetectedInv DEF ConfidenceBand, MaybePlate
<1>3. ASSUME UNCHANGED identificationVars PROVE IdentificationInv'
  BY <1>3 DEF identificationVars, IdentificationInv, Types, RowsOK, JobsOK, HeldAlone, Unnamed,
     Identified, ConfirmedIsTrue
<1>4. ASSUME NEW d \in Detection, IngestAnprFromEdge(c, d) PROVE IdentificationInv'
  BY <1>1, <1>3, <1>4 DEF IngestAnprFromEdge
<1>5. ASSUME NEW d \in Detection, NEW p \in Plate, LoadForChange(c, d, "CORRECTED", p)
      PROVE  IdentificationInv'
  BY <1>5, LoadForChangeInv DEF MaybePlate
<1>6. ASSUME NEW d \in Detection, LoadForChange(c, d, "REJECTED", NoPlate) PROVE IdentificationInv'
  BY <1>6, LoadForChangeInv DEF MaybePlate
<1>7. Len(arrivals) \in Nat BY DEF IdentificationInv, Types
<1>8. ASSUME NEW d \in Detection, NEW p \in Plate, LoadForConfirmation(c, d, p, 0)
      PROVE  IdentificationInv'
  <2>1. 0 \in 0..Len(arrivals) BY <1>7
  <2> QED BY <1>8, <2>1, LoadForConfirmationInv
<1>9. ASSUME NEW d \in Detection, NEW p \in Plate, NEW v \in 1..Len(arrivals),
             ~arrivals[v].made, LoadForConfirmation(c, d, p, v)
      PROVE  IdentificationInv'
  <2>1. v \in 0..Len(arrivals) BY <1>7
  <2> QED BY <1>9, <2>1, LoadForConfirmationInv
<1>10. CASE CutOff(c) BY <1>10, CutOffInv DEF CutOff
<1> QED
  BY <1>1, <1>2, <1>4, <1>5, <1>6, <1>8, <1>9, <1>10, FindVehicleInv, FinalizeLookupInv,
     CorrectDetectionInv, RejectDetectionInv, CreateVisitInv, LoadVisitInv,
     IdentifyTransactionInv, StoreConfirmationInv
     DEF OperatorSteps

\* Every step keeps the rows, the requests and the visits in agreement.
LEMMA IdentificationStepInv == IdentificationInv /\ [IdentificationNext]_identificationVars => IdentificationInv'
<1> SUFFICES ASSUME IdentificationInv, [IdentificationNext]_identificationVars
             PROVE  IdentificationInv'
  OBVIOUS
<1>1. CASE UNCHANGED identificationVars
  BY <1>1 DEF identificationVars, IdentificationInv, Types, RowsOK, JobsOK, HeldAlone, Unnamed,
     Identified, ConfirmedIsTrue
<1> QED BY <1>1, OperatorStepsInv, RegisterVehicleInv, OpenVisitInv DEF IdentificationNext

\* What TLC checks of the rows.
LEMMA IdentificationTypes == IdentificationInv => IdentificationTypeOK
<1> SUFFICES ASSUME IdentificationInv PROVE IdentificationTypeOK OBVIOUS
<1>1. Types /\ RowsOK BY DEF IdentificationInv
<1>2. ASSUME NEW d \in Detection, detections[d] # NoDetection
      PROVE  /\ detections[d].lifecycle \in DOMAIN ALLOWED
             /\ detections[d].band \in ConfidenceBand
             /\ {detections[d].vehicle, detections[d].corrected, detections[d].selected}
                   \subseteq Plate \cup {NoPlate}
             /\ detections[d].visit \in 0..Len(arrivals)
  <2>1. detections[d] \in DetectionRow BY <1>1, <1>2 DEF Types
  <2>2. detections[d].lifecycle \in Lifecycle BY <2>1 DEF DetectionRow
  <2>3. There(detections[d]) BY <2>2 DEF There, Lifecycle
  <2>4. detections[d].visit \in Nat /\ detections[d].visit <= Len(arrivals) /\ Len(arrivals) \in Nat
    BY <1>1, <2>1, <2>3 DEF DetectionRow, RowsOK, Types
  <2>5. DOMAIN ALLOWED = Lifecycle BY DEF ALLOWED, Lifecycle
  <2> QED BY <2>1, <2>2, <2>4, <2>5 DEF DetectionRow, MaybePlate
<1>3. arrivals \in Seq([vehicle : Plate \cup {NoPlate}, made : BOOLEAN]) BY <1>1 DEF Types, Visit, MaybePlate
<1> QED BY <1>1, <1>2, <1>3 DEF IdentificationTypeOK, Types

\* However corrections, rejections, lookups and confirmations of a detection
\* overlap and wherever they are cut off, a confirmed detection tells the truth:
\* its visit has a vehicle, the confirmed one if the confirmation opened the
\* visit, and a plate the camera was unsure of was typed in by somebody.
THEOREM ConfirmationsAreTrue == IdentificationSpec => []ConfirmedIsTrue
<1>1. IdentificationInv => ConfirmedIsTrue BY DEF IdentificationInv
<1> QED BY <1>1, IdentificationInitInv, IdentificationStepInv, PTL DEF IdentificationSpec

\* The rows of the detections and the visits keep to their columns, and a
\* detection names a visit that exists, for any number of requests.
THEOREM IdentificationTyped == IdentificationSpec => []IdentificationTypeOK
BY IdentificationInitInv, IdentificationStepInv, IdentificationTypes, PTL DEF IdentificationSpec
=============================================================================
