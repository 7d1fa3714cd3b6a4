---------------------------- MODULE MCDriverMode ----------------------------
(* Instances of TransactionLifecycle and of the driver's page before it:    *)
(* two handlers race on a visit nobody watches, or the page and the office  *)
(* work on one by turns.                                                    *)
EXTENDS DriverMode, MCTransactionLifecycle

VARIABLE scenario

Undocumented ==
    /\ \A v \in Visit : visit[v] = NoVisit \/ Blank(visit[v])
    /\ \A h \in Handler : op[h] # "upload"

\* The administrator leaves the points alone.
PointsAreLeft == point' # point => stage' # stage

\* What happens while the driver is at the page: the office looks after
\* documents and approvals, and the material of every visit has a stage.
OfficeWork == {"verifyDocument", "rejectDocument", "approve", "reject"}

ByTurns ==
    /\ \A h \in Handler \ {h1} : stage'[h] = "idle"
    /\ stage[h1] = "idle" /\ stage'[h1] # "idle" => call'.step = "served" \/ op'[h1] \in OfficeWork
    /\ \A v \in Visit : visit'[v].tare # "over" /\ plain \notin {visit'[v].material, arg'[h1]}

DriversInit == scenario \in {"overlap", "driver"} /\ DriverInit

DriversNext ==
    /\ UNCHANGED scenario
    /\ \/ scenario = "overlap" /\ Next /\ PointsAreLeft /\ Undocumented' /\ UNCHANGED driverVars
       \/ scenario = "driver" /\ DriverNext /\ PointsAreLeft /\ ByTurns

DriversSpec ==
    DriversInit /\ [][DriversNext]_<<scenario, vars, driverVars>> /\ (scenario = "driver" => DriverFairness)
=============================================================================
