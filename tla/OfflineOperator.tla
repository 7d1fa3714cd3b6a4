--------------------------- MODULE OfflineOperator ---------------------------
(***************************************************************************)
(* Visits recorded on an edge gateway (apps/edge/src/offline): every call  *)
(* of the operator reads its row of the local store, queues an event and   *)
(* writes its row back whole, each of them a store access of its own, with *)
(* other calls and crashes in between.  Calls are promises of one process; *)
(* an event is named by its place in the queue.                            *)
(***************************************************************************)
EXTENDS Integers, Sequences, FiniteSets

CONSTANTS
    Call,        \* calls of the operator that may run at a time
    MaxVisits,   \* bound on the visits numbered in a day
    Weight,      \* stable readings of the weight adapter
    Document,    \* contents a scanner may deliver
    Policy,      \* offline policies the backend may have: sets of what is allowed
    MaxEvents,   \* bound on the events queued
    MaxRestarts  \* bound on the crashes of the process

NoWeight == -1

\* The numbers of the day.
LocalVisit == 1..MaxVisits

ASSUME OperatorAssumption ==
    /\ Weight \subseteq Nat
    /\ MaxVisits \in Nat /\ MaxEvents \in Nat /\ MaxRestarts \in Nat

VARIABLES
    policy, configStale,  \* the configuration cache
    counter,              \* visits numbered today
    rows,                 \* LocalTransaction of each visit stored
    queue,                \* the events of the local store, in order
    files,                \* documents recorded in the local store
    calls,                \* the calls under way
    restarts

configCache  == <<policy, configStale>>
localStore   == <<counter, rows, queue, files>>
operatorVars == <<configCache, localStore, calls, restarts>>

Idle == [step |-> "idle"]

OperatorInit ==
    /\ policy \in Policy /\ configStale = FALSE
    /\ counter = 0 /\ rows = <<>> /\ queue = <<>> /\ files = {}
    /\ calls = [c \in Call |-> Idle]
    /\ restarts = 0

\* evaluateLocalAction.  "CONDITIONAL" in a policy stands for its value of
\* transactionCompletion, no "TRANSACTION_COMPLETION" in it for BLOCKED.
EvaluateLocalAction(action, approvalRequired) ==
    /\ action \in policy
    /\ action \in {"BASIC_TRANSACTION", "WEIGHT_ANOMALY", "TRANSACTION_COMPLETION"} => ~configStale
    /\ action = "TRANSACTION_COMPLETION" => ~("CONDITIONAL" \in policy /\ approvalRequired)

Event(kind, visit, dependsOn, gross, tare, net) ==
    [kind |-> kind, visit |-> visit, dependsOn |-> dependsOn,
     gross |-> gross, tare |-> tare, net |-> net]

Begin(c, call) == calls[c] = Idle /\ Len(queue) < MaxEvents /\ calls' = [calls EXCEPT ![c] = call]

Continue(c, step, call) == calls[c].step = step /\ calls' = [calls EXCEPT ![c] = call]

\* Mutant: the number of the visit is that of the rows stored.
NumberByRows(c, approvalRequired) ==
    /\ EvaluateLocalAction("BASIC_TRANSACTION", FALSE)
    /\ Cardinality(DOMAIN rows) + 1 \in LocalVisit
    /\ counter' = Cardinality(DOMAIN rows) + 1
    /\ Begin(c, [step |-> "queue", row |-> [state |-> "IDENTIFIED", completed |-> FALSE,
                    gross |-> NoWeight, tare |-> NoWeight, net |-> NoWeight,
                    approvalRequired |-> approvalRequired, events |-> <<>>],
                 event |-> Event("CREATED", counter', {}, NoWeight, NoWeight, NoWeight)])
    /\ UNCHANGED <<configCache, rows, queue, files, restarts>>

\* createTransaction, up to the number taken from the persistent counter.
CreateTransaction(c, approvalRequired) ==
    /\ EvaluateLocalAction("BASIC_TRANSACTION", FALSE)
    /\ counter + 1 \in LocalVisit
    /\ counter' = counter + 1
    /\ Begin(c, [step |-> "queue", row |-> [state |-> "IDENTIFIED", completed |-> FALSE,
                    gross |-> NoWeight, tare |-> NoWeight, net |-> NoWeight,
                    approvalRequired |-> approvalRequired, events |-> <<>>],
                 event |-> Event("CREATED", counter', {}, NoWeight, NoWeight, NoWeight)])
    /\ UNCHANGED <<configCache, rows, queue, files, restarts>>

\* Mutant: the latest event of a row.
LatestEvent(row) == {row.events[i] : i \in DOMAIN row.events \cap {Len(row.events)}}

\* The first event of a row, if it has one.
CreatedEvent(row) == {row.events[i] : i \in DOMAIN row.events \cap {1}}

\* captureWeighment("GROSS"): the row is read, the adapter gives a weight.
CaptureGross(c, v, w) ==
    /\ EvaluateLocalAction("READ_WEIGHT", FALSE)
    /\ v \in DOMAIN rows
    /\ Begin(c, [step |-> "queue",
                 row |-> [rows[v] EXCEPT !.gross = w, !.state = "GROSS_CAPTURED"],
                 event |-> Event("GROSS", v, CreatedEvent(rows[v]), w, NoWeight, NoWeight)])
    /\ UNCHANGED <<configCache, localStore, restarts>>

\* captureWeighment("TARE"): needs a gross weight the tare does not exceed.
CaptureTare(c, v, w) ==
    /\ EvaluateLocalAction("READ_WEIGHT", FALSE)
    /\ v \in DOMAIN rows
    /\ rows[v].gross # NoWeight /\ w <= rows[v].gross
    /\ Begin(c, [step |-> "queue",
                 row |-> [rows[v] EXCEPT !.tare = w, !.net = rows[v].gross - w,
                                         !.state = "TARE_CAPTURED"],
                 event |-> Event("TARE", v, CreatedEvent(rows[v]), NoWeight, w, NoWeight)])
    /\ UNCHANGED <<configCache, localStore, restarts>>

\* complete, which policy lets pass.  The weights are decimal strings: a net
\* of zero is one that was captured.
Complete(c, v) ==
    /\ v \in DOMAIN rows
    /\ EvaluateLocalAction("TRANSACTION_COMPLETION", rows[v].approvalRequired)
    /\ rows[v].gross # NoWeight /\ rows[v].tare # NoWeight
    /\ Begin(c, [step |-> "queue",
                 row |-> [rows[v] EXCEPT !.state = "LOCAL_COMPLETED", !.completed = TRUE],
                 event |-> Event("STATE", v, CreatedEvent(rows[v]),
                                 rows[v].gross, rows[v].tare, rows[v].net)])
    /\ UNCHANGED <<configCache, localStore, restarts>>

\* complete, which policy refuses: the visit waits for an approval.
PauseForApproval(c, v) ==
    /\ v \in DOMAIN rows
    /\ ~EvaluateLocalAction("TRANSACTION_COMPLETION", rows[v].approvalRequired)
    /\ Begin(c, [step |-> "store", visit |-> v,
                 row |-> [rows[v] EXCEPT !.state = "PAUSED_APPROVAL"]])
    /\ UNCHANGED <<configCache, localStore, restarts>>

\* Mutant: the row is written before its event is queued.
StoreFirst(c) ==
    /\ Continue(c, "queue", [step |-> "late", event |-> calls[c].event])
    /\ rows' = LET v == calls[c].event.visit
               IN  [u \in DOMAIN rows \cup {v} |->
                       IF u = v THEN [calls[c].row EXCEPT !.events = Append(@, Len(queue) + 1)]
                       ELSE rows[u]]
    /\ UNCHANGED <<configCache, counter, queue, files, restarts>>

\* enqueue: the event is in the store, the row of the call names it.
Enqueue(c) ==
    /\ calls[c].step = "queue"
    /\ queue' = Append(queue, calls[c].event)
    /\ Continue(c, "queue", [step |-> "store", visit |-> calls[c].event.visit,
                             row |-> [calls[c].row EXCEPT !.events = Append(@, Len(queue'))]])
    /\ UNCHANGED <<configCache, counter, rows, files, restarts>>

\* upsertTransaction.
Upsert(c) ==
    /\ calls[c].step = "store"
    /\ rows' = [u \in DOMAIN rows \cup {calls[c].visit} |->
                   IF u = calls[c].visit THEN calls[c].row ELSE rows[u]]
    /\ Continue(c, "store", Idle)
    /\ UNCHANGED <<configCache, counter, queue, files, restarts>>

\* captureAnpr queues its event first, without a dependency and whether or
\* not there is such a visit ...
CaptureAnpr(c, v) ==
    /\ EvaluateLocalAction("ANPR", FALSE)
    /\ Begin(c, [step |-> "load", visit |-> v, id |-> Len(queue) + 1])
    /\ queue' = Append(queue, Event("ANPR", v, {}, NoWeight, NoWeight, NoWeight))
    /\ UNCHANGED <<configCache, counter, rows, files, restarts>>

\* ... and looks for the row of the visit afterwards.
LoadAfterAnpr(c) ==
    /\ calls[c].step = "load"
    /\ Continue(c, "load",
         IF calls[c].visit \in DOMAIN rows
         THEN [step |-> "store", visit |-> calls[c].visit,
               row |-> [rows[calls[c].visit] EXCEPT !.events = Append(@, calls[c].id)]]
         ELSE Idle)
    /\ UNCHANGED <<configCache, localStore, restarts>>

\* captureScan: storeLocalFile keeps a document once, by its hash ...
CaptureScan(c, v, d) ==
    /\ EvaluateLocalAction("DOCUMENT_CAPTURE", FALSE)
    /\ Begin(c, [step |-> "scan", visit |-> v, document |-> d])
    /\ files' = files \cup {d}
    /\ UNCHANGED <<configCache, counter, rows, queue, restarts>>

\* ... and its event is queued; the row of the visit is not touched.
EnqueueScan(c) ==
    /\ calls[c].step = "scan"
    /\ queue' = Append(queue, [kind |-> "SCAN", visit |-> calls[c].visit, dependsOn |-> {},
                               document |-> calls[c].document])
    /\ Continue(c, "scan", Idle)
    /\ UNCHANGED <<configCache, counter, rows, files, restarts>>

\* detectLocalAnomaly, of a reading that is out of order; without a visit the
\* event belongs to the weighbridge.
DetectLocalAnomaly(c, v) ==
    /\ EvaluateLocalAction("WEIGHT_ANOMALY", FALSE)
    /\ calls[c] = Idle /\ Len(queue) < MaxEvents
    /\ queue' = Append(queue, Event("ANOMALY", v, {}, NoWeight, NoWeight, NoWeight))
    /\ UNCHANGED <<configCache, counter, rows, files, calls, restarts>>

\* isConfigStale: the cache passes its validUntil.
ConfigExpires ==
    /\ ~configStale /\ configStale' = TRUE
    /\ UNCHANGED <<policy, localStore, calls, restarts>>

\* The process stops and starts again, with a new bootstrap (index.ts) or,
\* when the backend does not answer, with the cache it has.
Restart ==
    /\ restarts < MaxRestarts /\ restarts' = restarts + 1
    /\ calls' = [c \in Call |-> Idle]
    /\ \/ policy' \in Policy /\ configStale' = FALSE
       \/ UNCHANGED configCache
    /\ UNCHANGED localStore

OperatorNext ==
    \/ \E c \in Call :
          \/ \E approvalRequired \in BOOLEAN : CreateTransaction(c, approvalRequired)
          \/ \E v \in LocalVisit :
                \/ \E w \in Weight : CaptureGross(c, v, w) \/ CaptureTare(c, v, w)
                \/ Complete(c, v) \/ PauseForApproval(c, v)
                \/ CaptureAnpr(c, v) \/ DetectLocalAnomaly(c, v)
                \/ \E d \in Document : CaptureScan(c, v, d)
          \/ Enqueue(c) \/ Upsert(c) \/ LoadAfterAnpr(c) \/ EnqueueScan(c)
    \/ ConfigExpires
    \/ Restart

OperatorSpec == OperatorInit /\ [][OperatorNext]_operatorVars

-----------------------------------------------------------------------------
(* Properties                                                              *)

OperatorTypeOK ==
    /\ policy \in Policy /\ configStale \in BOOLEAN
    /\ counter \in Nat /\ DOMAIN rows \subseteq LocalVisit
    /\ \A v \in DOMAIN rows : rows[v].tare # NoWeight => rows[v].net \in Nat
    /\ files \subseteq Document
    /\ \A c \in Call : calls[c].step \in {"idle", "queue", "store", "load", "scan"}

Queued(kind) == {i \in DOMAIN queue : queue[i].kind = kind}

\* One visit is announced per number of the day, whatever the crashes between
\* the number, the event and the row: the backend takes the number for the
\* identity of the visit.
NumbersAreNotReused ==
    \A i, j \in Queued("CREATED") : queue[i].visit = queue[j].visit => i = j

\* What a row shows the operator has been queued: its weights are those of
\* events of its visit, its events are in the queue.
RecordedIsQueued ==
    \A v \in DOMAIN rows :
        /\ \A i \in DOMAIN rows[v].events :
              rows[v].events[i] \in DOMAIN queue /\ queue[rows[v].events[i]].visit = v
        /\ rows[v].gross # NoWeight => \E i \in Queued("GROSS") : queue[i].visit = v /\ queue[i].gross = rows[v].gross
        /\ rows[v].tare # NoWeight => \E i \in Queued("TARE") : queue[i].visit = v /\ queue[i].tare = rows[v].tare
        /\ rows[v].completed => \E i \in Queued("STATE") : queue[i].visit = v

\* An event that must wait for its visit names the event that announces it,
\* and that one is queued before: the backend never holds an event for a
\* prerequisite the gateway does not have.
PrerequisiteIsQueued ==
    \A i \in Queued("GROSS") \cup Queued("TARE") \cup Queued("STATE") :
        \E j \in queue[i].dependsOn :
            j < i /\ queue[j].kind = "CREATED" /\ queue[j].visit = queue[i].visit
=============================================================================
