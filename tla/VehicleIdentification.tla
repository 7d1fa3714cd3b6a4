----------------------- MODULE VehicleIdentification -----------------------
(***************************************************************************)
(* The plates a camera or an operator reads, and the visits they identify  *)
(* (apps/api modules/cameras/service.ts, domain/anprLifecycle.ts,          *)
(* domain/anprConfidence.ts; createArrival and identifyTransaction of      *)
(* modules/transactions/service.ts).  A clerk is one request in flight: it *)
(* checks the detection it has loaded and writes by id alone, with lookups *)
(* and whole other operations in between.  Nothing but the request is      *)
(* ever checked against the lifecycle the row has by then.                 *)
(***************************************************************************)
EXTENDS Naturals, Sequences

CONSTANTS
    Detection,     \* the detections that may be made
    Plate,         \* registration numbers; a vehicle is known by its own
    NoPlate,
    Operator,      \* requests in flight
    MaxArrivals    \* bound on visits

ASSUME IdentificationAssumption == NoPlate \notin Plate /\ MaxArrivals \in Nat

VARIABLES
    detections,    \* AnprDetection rows
    registered,    \* the plates of registered vehicles
    arrivals,      \* visits: their vehicle, and whether a confirmation made them
    operator       \* what each request has loaded and does next

identificationVars == <<detections, registered, arrivals, operator>>

ConfidenceBand == {"HIGH", "MEDIUM", "LOW", "NONE"}

ALLOWED ==
    [DETECTED |-> {"MATCHED", "NO_MATCH", "CONFIRMATION_REQUIRED", "CORRECTED", "REJECTED", "CONFIRMED"},
     MATCHED |-> {"CONFIRMATION_REQUIRED", "CONFIRMED", "CORRECTED", "REJECTED"},
     NO_MATCH |-> {"CORRECTED", "REJECTED", "CONFIRMATION_REQUIRED"},
     CONFIRMATION_REQUIRED |-> {"CONFIRMED", "CORRECTED", "REJECTED"},
     CORRECTED |-> {"MATCHED", "NO_MATCH", "CONFIRMATION_REQUIRED", "CONFIRMED", "REJECTED"},
     CONFIRMED |-> {}, REJECTED |-> {}]

NoDetection == [lifecycle |-> "none"]
Waiting == [step |-> "idle"]
Task(step, d) == [step |-> step, detection |-> d, plate |-> NoPlate, match |-> "MATCHED",
                  vehicle |-> NoPlate, visit |-> 0]
Does(c, job) == operator' = [operator EXCEPT ![c] = job]
Done(c) == Does(c, Waiting)

IdentificationInit ==
    /\ detections = [d \in Detection |-> NoDetection]
    /\ registered \in SUBSET Plate
    /\ arrivals = <<>>
    /\ operator = [c \in Operator |-> Waiting]

Known(p) == IF p \in registered THEN p ELSE NoPlate
-----------------------------------------------------------------------------
(* A new detection, and its vehicle                                        *)

Detected(c, d, source, band, plate, candidates) ==
    /\ operator[c] = Waiting /\ detections[d] = NoDetection
    /\ detections' = [detections EXCEPT ![d] =
          [lifecycle |-> "DETECTED", source |-> source, band |-> band, plate |-> plate,
           candidates |-> candidates, corrected |-> NoPlate, selected |-> NoPlate,
           vehicle |-> NoPlate, visit |-> 0]]
    /\ Does(c, [Task("find", d) EXCEPT !.plate = plate,
                  !.match = IF band = "HIGH" \/ source = "MANUAL" THEN "MATCHED"
                            ELSE "CONFIRMATION_REQUIRED"])
    /\ UNCHANGED <<registered, arrivals>>

\* What the camera of the site sees ...
RecognizeCamera(c, d) ==
    \/ Detected(c, d, "ANPR", "NONE", NoPlate, {})
    \/ \E band \in ConfidenceBand, p \in Plate, others \in SUBSET Plate :
          Detected(c, d, "ANPR", band, p, {p} \cup others)

\* ... what a gateway has seen, sent once more perhaps: it names the detection,
\* and one that is there stays as it is ...
IngestAnprFromEdge(c, d) ==
    \/ RecognizeCamera(c, d)
    \/ operator[c] = Waiting /\ detections[d] # NoDetection /\ UNCHANGED identificationVars

\* ... and what an operator types in.
ManualIdentify(c, d) ==
    \E p \in Plate : Detected(c, d, "MANUAL", "NONE", p, {})

FindVehicle(c) ==
    /\ operator[c].step = "find"
    /\ Does(c, [operator[c] EXCEPT !.step = "match", !.vehicle = Known(operator[c].plate)])
    /\ UNCHANGED <<detections, registered, arrivals>>

\* Mutant: only the vehicle of the detection is written.
MatchVehicle(c) ==
    /\ operator[c].step = "match"
    /\ detections' = [detections EXCEPT ![operator[c].detection].vehicle = operator[c].vehicle]
    /\ Done(c)
    /\ UNCHANGED <<registered, arrivals>>

\* finalizeLookup, and the second half of a correction or manual entry.
FinalizeLookup(c) ==
    LET job == operator[c] IN
    /\ job.step = "match"
    /\ detections' = [detections EXCEPT
          ![job.detection].vehicle = job.vehicle,
          ![job.detection].lifecycle = IF job.plate = NoPlate THEN "DETECTED"
                                       ELSE IF job.vehicle = NoPlate THEN "NO_MATCH" ELSE job.match]
    /\ Done(c)
    /\ UNCHANGED <<registered, arrivals>>
-----------------------------------------------------------------------------
(* Correction and rejection                                                *)

\* correctDetection and rejectDetection check the row they load ...
LoadForChange(c, d, to, plate) ==
    /\ operator[c] = Waiting /\ detections[d] # NoDetection
    /\ to \in ALLOWED[detections[d].lifecycle]
    /\ Does(c, [Task(to, d) EXCEPT !.plate = plate])
    /\ UNCHANGED <<detections, registered, arrivals>>

\* ... and write the row whatever has become of it.
CorrectDetection(c) ==
    LET job == operator[c] IN
    /\ job.step = "CORRECTED"
    /\ detections' = [detections EXCEPT ![job.detection].lifecycle = "CORRECTED",
                          ![job.detection].corrected = job.plate, ![job.detection].selected = job.plate]
    /\ Does(c, [job EXCEPT !.step = "find"])
    /\ UNCHANGED <<registered, arrivals>>

RejectDetection(c) ==
    /\ operator[c].step = "REJECTED"
    /\ detections' = [detections EXCEPT ![operator[c].detection].lifecycle = "REJECTED"]
    /\ Done(c)
    /\ UNCHANGED <<registered, arrivals>>
-----------------------------------------------------------------------------
(* Confirmation                                                            *)

canConfirmWithoutCorrection(band) == band \in {"HIGH", "MEDIUM"}

PlatesOf(row) == {row.plate, row.corrected, row.selected} \cup row.candidates

\* confirmIdentification: the vehicle for a new visit, or for one that waits
\* for its vehicle (visit > 0).
LoadForConfirmation(c, d, vehicle, visit) ==
    LET row == detections[d] IN
    /\ operator[c] = Waiting
    /\ row.lifecycle \notin {"none", "CONFIRMED", "REJECTED"}
    /\ row.source = "ANPR" /\ ~canConfirmWithoutCorrection(row.band) => row.corrected # NoPlate
    /\ vehicle \in registered \cap PlatesOf(row)
    /\ Does(c, [Task(IF visit = 0 THEN "create" ELSE "load", d) EXCEPT
                  !.vehicle = vehicle, !.visit = visit])
    /\ UNCHANGED <<detections, registered, arrivals>>

CreateVisit(c) ==
    /\ operator[c].step = "create" /\ Len(arrivals) < MaxArrivals
    /\ arrivals' = Append(arrivals, [vehicle |-> NoPlate, made |-> TRUE])
    /\ Does(c, [operator[c] EXCEPT !.step = "load", !.visit = Len(arrivals')])
    /\ UNCHANGED <<detections, registered>>

\* identifyTransaction: a visit that has its vehicle is refused, and two
\* requests that both find it without one both go on.
LoadVisit(c) ==
    /\ operator[c].step = "load"
    /\ IF arrivals[operator[c].visit].vehicle = NoPlate
       THEN Does(c, [operator[c] EXCEPT !.step = "identify"]) ELSE Done(c)
    /\ UNCHANGED <<detections, registered, arrivals>>

IdentifyTransaction(c) ==
    /\ operator[c].step = "identify"
    /\ arrivals' = [arrivals EXCEPT ![operator[c].visit].vehicle = operator[c].vehicle]
    /\ Does(c, [operator[c] EXCEPT !.step = "store"])
    /\ UNCHANGED <<detections, registered>>

StoreConfirmation(c) ==
    LET job == operator[c] IN
    /\ job.step = "store"
    /\ detections' = [detections EXCEPT
          ![job.detection].lifecycle = "CONFIRMED", ![job.detection].vehicle = job.vehicle,
          ![job.detection].visit = job.visit, ![job.detection].selected = job.vehicle]
    /\ Done(c)
    /\ UNCHANGED <<registered, arrivals>>
-----------------------------------------------------------------------------
\* A request is cut off, or one of its statements fails.
CutOff(c) ==
    /\ operator[c] # Waiting
    /\ Done(c)
    /\ UNCHANGED <<detections, registered, arrivals>>

RegisterVehicle(p) ==
    /\ p \notin registered
    /\ registered' = registered \cup {p}
    /\ UNCHANGED <<detections, arrivals, operator>>

\* A visit is opened at the gate.
OpenVisit ==
    /\ Len(arrivals) < MaxArrivals
    /\ arrivals' = Append(arrivals, [vehicle |-> NoPlate, made |-> FALSE])
    /\ UNCHANGED <<detections, registered, operator>>

OperatorSteps(c) ==
    \/ \E d \in Detection : RecognizeCamera(c, d) \/ IngestAnprFromEdge(c, d) \/ ManualIdentify(c, d)
    \/ FindVehicle(c) \/ FinalizeLookup(c)
    \/ \E d \in Detection, p \in Plate : LoadForChange(c, d, "CORRECTED", p)
    \/ \E d \in Detection : LoadForChange(c, d, "REJECTED", NoPlate)
    \/ CorrectDetection(c) \/ RejectDetection(c)
    \/ \E d \in Detection, p \in Plate : LoadForConfirmation(c, d, p, 0)
    \/ \E d \in Detection, p \in Plate, v \in 1..Len(arrivals) :
          ~arrivals[v].made /\ LoadForConfirmation(c, d, p, v)
    \/ CreateVisit(c) \/ LoadVisit(c) \/ IdentifyTransaction(c) \/ StoreConfirmation(c)
    \/ CutOff(c)

IdentificationNext ==
    \/ \E c \in Operator : OperatorSteps(c)
    \/ \E p \in Plate : RegisterVehicle(p)
    \/ OpenVisit

IdentificationSpec == IdentificationInit /\ [][IdentificationNext]_identificationVars
-----------------------------------------------------------------------------
\* The columns have the values of their types; a detection is tied to visits
\* that exist.
IdentificationTypeOK ==
    /\ \A d \in Detection : detections[d] # NoDetection =>
          /\ detections[d].lifecycle \in DOMAIN ALLOWED
          /\ detections[d].band \in ConfidenceBand
          /\ {detections[d].vehicle, detections[d].corrected, detections[d].selected}
                \subseteq Plate \cup {NoPlate}
          /\ detections[d].visit \in 0..Len(arrivals)
    /\ registered \subseteq Plate
    /\ arrivals \in Seq([vehicle : Plate \cup {NoPlate}, made : BOOLEAN])

\* What a confirmed detection says of its visit is so, however corrections,
\* lookups, rejections and other confirmations of the same detection overlap:
\* the visit has a vehicle, the one confirmed if the confirmation opened the
\* visit, and a plate the camera was unsure of was typed in by somebody
\* (docs/camera-anpr-integration.md).
ConfirmedIsTrue ==
    \A d \in Detection : detections[d].lifecycle = "CONFIRMED" =>
        LET row == detections[d] IN
        /\ row.visit # 0 /\ arrivals[row.visit].vehicle # NoPlate
        /\ arrivals[row.visit].made => arrivals[row.visit].vehicle = row.vehicle
        /\ row.source = "ANPR" /\ row.band \in {"LOW", "NONE"} => row.corrected # NoPlate
=============================================================================
