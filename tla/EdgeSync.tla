------------------------------ MODULE EdgeSync ------------------------------
(***************************************************************************)
(* The path of an offline event from the queue of an edge gateway to the   *)
(* central system: the sync loop of the gateway (apps/edge/src/sync), its  *)
(* durable queue (apps/edge/src/store), the batch ingestion of the backend *)
(* (apps/api/src/modules/sync, modules/edge/ingest.ts) and the part of the *)
(* life of a central transaction that ingestion reads and writes.          *)
(*                                                                         *)
(* The queue and the central tables survive a crash; the sync loop's batch *)
(* and a request handler do not.  Every await of a handler that separates  *)
(* two durable writes separates two actions here.  Faults (a crash, a lost *)
(* reply, a failed write) are counted by the variable faults and bounded   *)
(* by MaxFaults.                                                           *)
(***************************************************************************)
EXTENDS Naturals, FiniteSets

CONSTANTS
    Event,       \* edge events
    Visit,       \* local transactions of the gateway
    Central,     \* ids of central transactions
    Request,     \* sync requests that may be open at the backend
    KindOf,      \* the kind of each event
    VisitOf,     \* the local transaction of each event
    Rank,        \* the position of each event under compareQueuedEvents
    BatchSize, MaxRetries,
    MaxFaults,   \* bound on the faults of a behaviour
    None

Kinds         == {"CREATED", "GROSS", "TARE", "STATE"}
AckStatus     == {"ACCEPTED", "ALREADY_PROCESSED", "CONFLICT", "REJECTED", "DEPENDENCY_PENDING"}
SuccessfulAck == {"ACCEPTED", "ALREADY_PROCESSED"}

ASSUME EventAssumption ==
    /\ IsFiniteSet(Event)
    /\ KindOf \in [Event -> Kinds]
    /\ VisitOf \in [Event -> Visit]
    /\ Rank \in [Event -> Nat]
    /\ \A d, e \in Event : Rank[d] = Rank[e] => d = e

\* operator.createTransaction gives every visit a local id of its own and the
\* one event that opens it.
ASSUME VisitAssumption ==
    \A e \in Event :
        /\ \E d \in Event : KindOf[d] = "CREATED" /\ VisitOf[d] = VisitOf[e]
        /\ \A d \in Event : KindOf[d] = "CREATED" /\ KindOf[e] = "CREATED" /\ VisitOf[d] = VisitOf[e]
              => d = e

ASSUME BoundAssumption ==
    /\ BatchSize \in Nat \ {0}
    /\ MaxRetries \in Nat \ {0}
    /\ MaxFaults \in Nat
    /\ None \notin Event \cup Visit \cup Central \cup Request \cup AckStatus

VARIABLES
    \* the queue of the gateway, on disk
    status,      \* QueueStatus of each event, "ABSENT" before it is enqueued
    retryCount,
    backoff,     \* nextRetryAt lies in the future
    conflicts,   \* events with a conflict record in the local store
    \* the sync loop, in memory
    phase, batch, rest, snap, current, acks,
    \* the request handlers of the backend, in memory
    hpc, hrest, hacks, htx,
    \* the tables of the backend
    ingested,    \* EdgeIngestedEvent.status
    mapTo,       \* EdgeLocalTransactionMap.transactionId
    completion,  \* EdgeLocalTransactionMap.completionState
    cstatus, cvisit, cmaterial, cgross, ctare,  \* central transactions
    faults

queueVars   == <<status, retryCount, backoff, conflicts>>
loopVars    == <<phase, batch, rest, snap, current, acks>>
handlerVars == <<hpc, hrest, hacks, htx>>
centralVars == <<cstatus, cvisit, cmaterial, cgross, ctare>>
tableVars   == <<ingested, mapTo, completion, cstatus, cvisit, cmaterial, cgross, ctare>>
vars == <<queueVars, loopVars, handlerVars, tableVars, faults>>

QueueStatus   == {"PENDING", "SYNCING", "SYNCED", "FAILED", "DEAD_LETTER"}
CentralStatus == {"ARRIVED", "IDENTIFIED", "MATERIAL_CLASSIFIED", "FIRST_WEIGHMENT", "UNLOADED",
                  "SECOND_WEIGHMENT", "COMPLETED", "REJECTED", "EXCEPTION"}
Blocking      == {"REJECTED", "EXCEPTION"}
HandlerStep   == {"idle", "next", "create", "map", "state", "finalize", "confirm",
                  "remember", "weigh", "record", "mark", "done"}

NoAcks == [e \in Event |-> None]

\* dependsOn: the operator links every later event of a visit to the event
\* that created it, and to nothing else.
DependsOn(e) ==
    IF KindOf[e] = "CREATED" THEN {}
    ELSE {d \in Event : KindOf[d] = "CREATED" /\ VisitOf[d] = VisitOf[e]}

\* What the local transaction must already hold before the operator can
\* capture an event of each kind.
Requires(e) ==
    {d \in Event : VisitOf[d] = VisitOf[e] /\ KindOf[d] \in
        CASE KindOf[e] = "CREATED" -> {}
          [] KindOf[e] = "GROSS"   -> {"CREATED"}
          [] KindOf[e] = "TARE"    -> {"CREATED", "GROSS"}
          [] KindOf[e] = "STATE"   -> {"CREATED", "GROSS", "TARE"}}

First(S) == CHOOSE e \in S : \A d \in S : Rank[e] <= Rank[d]

Init ==
    /\ status = [e \in Event |-> "ABSENT"]
    /\ retryCount = [e \in Event |-> 0]
    /\ backoff = [e \in Event |-> FALSE]
    /\ conflicts = {}
    /\ phase = "idle" /\ batch = {} /\ rest = {} /\ current = None
    /\ snap = [e \in Event |-> 0]
    /\ acks = NoAcks
    /\ hpc = [r \in Request |-> "idle"]
    /\ hrest = [r \in Request |-> {}]
    /\ hacks = [r \in Request |-> NoAcks]
    /\ htx = [r \in Request |-> None]
    /\ ingested = [e \in Event |-> "NONE"]
    /\ mapTo = [v \in Visit |-> None]
    /\ completion = [v \in Visit |-> "NONE"]
    /\ cstatus = [c \in Central |-> "FREE"]
    /\ cvisit = [c \in Central |-> None]
    /\ cmaterial = [c \in Central |-> FALSE]
    /\ cgross = [c \in Central |-> None]
    /\ ctare = [c \in Central |-> None]
    /\ faults = 0

Fault == faults < MaxFaults /\ faults' = faults + 1

-----------------------------------------------------------------------------
(* The queue and the sync loop of the gateway                              *)

\* LocalStore.enqueue for an event of the offline operator: it is stored as
\* PENDING before the operator sees it.
Enqueue(e) ==
    /\ status[e] = "ABSENT"
    /\ \A d \in Requires(e) : status[d] # "ABSENT"
    /\ status' = [status EXCEPT ![e] = "PENDING"]
    /\ UNCHANGED <<retryCount, backoff, conflicts, loopVars, handlerVars, tableVars, faults>>

\* nextRetryAt of an event passes.
RetryDue(e) ==
    /\ backoff[e]
    /\ backoff' = [backoff EXCEPT ![e] = FALSE]
    /\ UNCHANGED <<status, retryCount, conflicts, loopVars, handlerVars, tableVars, faults>>

\* Mutant: events of an interrupted tick count as sent.
RecoveredAsSynced == [e \in Event |-> IF status[e] = "SYNCING" THEN "SYNCED" ELSE status[e]]

\* Mutant: nothing recovers the events of an interrupted tick.
NothingRecovered == status

Recovered == [e \in Event |-> IF status[e] = "SYNCING" THEN "PENDING" ELSE status[e]]

\* Mutant: dead letters are selected again.
DueWithDead == {e \in Event : Recovered[e] \in {"PENDING", "FAILED", "DEAD_LETTER"} /\ ~backoff[e]}

\* Mutant: failed events are never selected again.
DueOnlyPending == {e \in Event : Recovered[e] = "PENDING" /\ ~backoff[e]}

Due == {e \in Event : Recovered[e] \in {"PENDING", "FAILED"} /\ ~backoff[e]}

\* The first syncBatchSize of the due events under compareQueuedEvents.
IsBatch(B) ==
    /\ B \subseteq Due
    /\ Cardinality(B) = IF Cardinality(Due) < BatchSize THEN Cardinality(Due) ELSE BatchSize
    /\ \A e \in B, d \in Due \ B : Rank[e] < Rank[d]

\* SyncLoop.tick up to the batch: orphans of an interrupted tick go back to
\* PENDING, the due events are read once, and the loop keeps that copy.
StartTick ==
    /\ phase = "idle"
    /\ Due # {}
    /\ \E B \in SUBSET Due :
          /\ IsBatch(B)
          /\ batch' = B /\ rest' = B
          /\ snap' = [e \in Event |-> IF e \in B THEN retryCount[e] ELSE 0]
    /\ status' = Recovered
    /\ phase' = "marking"
    /\ UNCHANGED <<retryCount, backoff, conflicts, current, acks, handlerVars, tableVars, faults>>

\* The events of the batch are marked SYNCING one store write at a time.
MarkSyncing ==
    /\ phase = "marking" /\ rest # {}
    /\ LET e == First(rest) IN
          /\ status' = [status EXCEPT ![e] = "SYNCING"]
          /\ rest' = rest \ {e}
    /\ UNCHANGED <<retryCount, backoff, conflicts, phase, batch, snap, current, acks, handlerVars, tableVars, faults>>

\* client.syncBatch: a request handler of the backend starts on the batch.
SendBatch(r) ==
    /\ phase = "marking" /\ rest = {}
    /\ hpc[r] = "idle"
    /\ phase' = "waiting" /\ current' = r
    /\ hpc' = [hpc EXCEPT ![r] = "next"]
    /\ hrest' = [hrest EXCEPT ![r] = batch]
    /\ hacks' = [hacks EXCEPT ![r] = NoAcks]
    /\ UNCHANGED <<queueVars, batch, rest, snap, acks, htx, tableVars, faults>>

ReceiveReply ==
    /\ phase = "waiting" /\ hpc[current] = "done"
    /\ phase' = "acking" /\ rest' = batch
    /\ acks' = hacks[current]
    /\ hpc' = [hpc EXCEPT ![current] = "idle"]
    /\ hacks' = [hacks EXCEPT ![current] = NoAcks]
    /\ current' = None
    /\ UNCHANGED <<queueVars, batch, snap, hrest, htx, tableVars, faults>>

RequestFails ==
    /\ phase = "waiting"
    /\ phase' = "failing" /\ rest' = batch
    /\ current' = None
    /\ UNCHANGED <<queueVars, batch, snap, acks, handlerVars, tableVars>>

\* The backend process that held the request is gone.
BackendGone == RequestFails /\ hpc[current] = "idle" /\ UNCHANGED faults

\* The connection breaks while the handler runs or after it has answered:
\* BackendUnavailableError for the gateway, nothing for the handler.
LoseReply == RequestFails /\ hpc[current] # "idle" /\ Fault

\* Mutant: failEvent counts from the stored event, not from the tick's copy.
FailEventFromStore(e) ==
    LET n == retryCount[e] + 1 IN
    /\ retryCount' = [retryCount EXCEPT ![e] = n]
    /\ status' = [status EXCEPT ![e] = IF n < MaxRetries THEN "FAILED" ELSE "DEAD_LETTER"]
    /\ backoff' = [backoff EXCEPT ![e] = n < MaxRetries]

\* failEvent, computed from the copy of the event the tick has read.
FailEvent(e) ==
    LET n == snap[e] + 1 IN
    /\ retryCount' = [retryCount EXCEPT ![e] = n]
    /\ status' = [status EXCEPT ![e] = IF n < MaxRetries THEN "FAILED" ELSE "DEAD_LETTER"]
    /\ backoff' = [backoff EXCEPT ![e] = n < MaxRetries]

AckNext(e) ==
    /\ phase = "acking" /\ rest # {} /\ e = First(rest)
    /\ rest' = rest \ {e}
    /\ UNCHANGED <<phase, batch, snap, current, acks, handlerVars, tableVars, faults>>

\* Mutant: an event whose prerequisite is missing counts as acknowledged.
AckSuccessTooSoon(e) ==
    /\ AckNext(e)
    /\ acks[e] \in SuccessfulAck \cup {"DEPENDENCY_PENDING"}
    /\ status' = [status EXCEPT ![e] = "SYNCED"]
    /\ UNCHANGED <<retryCount, backoff, conflicts>>

AckSuccess(e) ==
    /\ AckNext(e)
    /\ acks[e] \in SuccessfulAck
    /\ status' = [status EXCEPT ![e] = "SYNCED"]
    /\ UNCHANGED <<retryCount, backoff, conflicts>>

AckDependencyPending(e) ==
    /\ AckNext(e)
    /\ acks[e] = "DEPENDENCY_PENDING"
    /\ status' = [status EXCEPT ![e] = "PENDING"]
    /\ backoff' = [backoff EXCEPT ![e] = TRUE]
    /\ UNCHANGED <<retryCount, conflicts>>

\* A conflict leaves nextRetryAt and retryCount as they are.
AckConflict(e) ==
    /\ AckNext(e)
    /\ acks[e] = "CONFLICT"
    /\ status' = [status EXCEPT ![e] = "FAILED"]
    /\ conflicts' = conflicts \cup {e}
    /\ UNCHANGED <<retryCount, backoff>>

AckRejected(e) ==
    /\ AckNext(e)
    /\ acks[e] \in {"REJECTED", None}
    /\ FailEvent(e)
    /\ UNCHANGED conflicts

\* A store operation of applyAcks, or of the bookkeeping after it, throws:
\* the catch block fails every event of the batch, acknowledged or not.
AckWriteFails ==
    /\ phase = "acking"
    /\ Fault
    /\ phase' = "failing" /\ rest' = batch
    /\ UNCHANGED <<queueVars, batch, snap, current, acks, handlerVars, tableVars>>

FailNext ==
    /\ phase = "failing" /\ rest # {}
    /\ FailEvent(First(rest))
    /\ rest' = rest \ {First(rest)}
    /\ UNCHANGED <<conflicts, phase, batch, snap, current, acks, handlerVars, tableVars, faults>>

ForgetTick ==
    /\ phase' = "idle" /\ batch' = {} /\ rest' = {} /\ current' = None
    /\ snap' = [e \in Event |-> 0]
    /\ acks' = NoAcks

\* Mutant: the guard "syncing" is not released after a failure.
FinishTickOnSuccess ==
    /\ phase = "acking" /\ rest = {}
    /\ ForgetTick
    /\ UNCHANGED <<queueVars, handlerVars, tableVars, faults>>

FinishTick ==
    /\ phase \in {"acking", "failing"} /\ rest = {}
    /\ ForgetTick
    /\ UNCHANGED <<queueVars, handlerVars, tableVars, faults>>

\* The gateway process stops, or something outside the inner try block of
\* tick throws (a store write, a file upload): nothing catches the rejection
\* and the process ends too.  The queue keeps what is on disk.
AbandonTick ==
    /\ phase # "idle"
    /\ Fault
    /\ ForgetTick
    /\ UNCHANGED <<queueVars, handlerVars, tableVars>>

-----------------------------------------------------------------------------
(* The batch handler of the backend                                        *)

\* Mutant: any result in the batch satisfies a dependency.
ProcessedAnyhow(r, d) == hacks[r][d] # None \/ ingested[d] = "PROCESSED"

Processed(r, d) == hacks[r][d] \in SuccessfulAck \/ ingested[d] = "PROCESSED"

\* Handler r is at step pc of event e.
At(r, e, pc) == hpc[r] = pc /\ hrest[r] # {} /\ e = First(hrest[r])

\* The result of e is pushed and the handler turns to the next event, or
\* responds when there is none.
Push(r, e, ack) ==
    /\ hacks' = [hacks EXCEPT ![r][e] = ack]
    /\ hrest' = [hrest EXCEPT ![r] = @ \ {e}]
    /\ hpc' = [hpc EXCEPT ![r] = IF hrest[r] = {e} THEN "done" ELSE "next"]
    /\ htx' = [htx EXCEPT ![r] = None]

Goto(r, pc) == hpc' = [hpc EXCEPT ![r] = pc]

PrerequisiteMissing(r, e) ==
    /\ At(r, e, "next")
    /\ \E d \in DependsOn(e) : ~Processed(r, d)
    /\ Push(r, e, "DEPENDENCY_PENDING")
    /\ UNCHANGED <<queueVars, loopVars, tableVars, faults>>

Ready(r, e) == At(r, e, "next") /\ \A d \in DependsOn(e) : Processed(r, d)

AlreadyProcessed(r, e) ==
    /\ Ready(r, e) /\ ingested[e] = "PROCESSED"
    /\ Push(r, e, "ALREADY_PROCESSED")
    /\ UNCHANGED <<queueVars, loopVars, tableVars, faults>>

Fresh(r, e) == Ready(r, e) /\ ingested[e] # "PROCESSED"

\* Mutant: every visit that is not weighed twice is a conflict.
InConflictUnlessWeighed(e) ==
    /\ KindOf[e] = "STATE"
    /\ mapTo[VisitOf[e]] # None
    /\ cstatus[mapTo[VisitOf[e]]] # "SECOND_WEIGHMENT"

\* detectConflict: the completion of a visit whose central transaction is
\* rejected or in exception is reported and not applied.
InConflict(e) ==
    /\ KindOf[e] = "STATE"
    /\ mapTo[VisitOf[e]] # None
    /\ cstatus[mapTo[VisitOf[e]]] \in Blocking

DetectConflict(r, e) ==
    /\ Fresh(r, e) /\ InConflict(e)
    /\ Push(r, e, "CONFLICT")
    /\ UNCHANGED <<queueVars, loopVars, tableVars, faults>>

\* processSpecialEvent or ingestGatewayEvent is entered.  A weight reading
\* gets its EdgeIngestedEvent row first.
Dispatch(r, e) ==
    /\ Fresh(r, e) /\ ~InConflict(e)
    /\ CASE KindOf[e] = "CREATED" ->
              /\ Goto(r, IF mapTo[VisitOf[e]] = None THEN "create" ELSE "remember")
              /\ UNCHANGED ingested
         [] KindOf[e] = "STATE" ->
              Goto(r, "state") /\ UNCHANGED ingested
         [] OTHER ->
              /\ Goto(r, "weigh")
              /\ ingested' = [ingested EXCEPT ![e] = "RECEIVED"]
    /\ UNCHANGED <<queueVars, loopVars, hrest, hacks, htx, mapTo, completion, centralVars, faults>>

\* createTransaction, then identifyTransaction, whose failure is ignored.
CreateCentral(r, e, c, arrival) ==
    /\ At(r, e, "create")
    /\ cstatus[c] = "FREE"
    /\ arrival \in {"ARRIVED", "IDENTIFIED"}
    /\ cstatus' = [cstatus EXCEPT ![c] = arrival]
    /\ cvisit' = [cvisit EXCEPT ![c] = VisitOf[e]]
    /\ htx' = [htx EXCEPT ![r] = c]
    /\ Goto(r, "map")
    /\ UNCHANGED <<queueVars, loopVars, hrest, hacks, ingested, mapTo, completion,
                   cmaterial, cgross, ctare, faults>>

\* The upsert of EdgeLocalTransactionMap: a later handler overwrites the id
\* an earlier one stored.
MapVisit(r, e) ==
    /\ At(r, e, "map")
    /\ mapTo' = [mapTo EXCEPT ![VisitOf[e]] = htx[r]]
    /\ Goto(r, "remember")
    /\ UNCHANGED <<queueVars, loopVars, hrest, hacks, htx, ingested, completion, centralVars, faults>>

\* Mutant: the completion is confirmed before the transaction is finalized.
ApplyStateEarly(r, e) ==
    /\ At(r, e, "state")
    /\ mapTo[VisitOf[e]] # None
    /\ completion' = [completion EXCEPT ![VisitOf[e]] = "CENTRAL_COMPLETED"]
    /\ IF cstatus[mapTo[VisitOf[e]]] = "SECOND_WEIGHMENT"
       THEN Goto(r, "finalize") /\ htx' = [htx EXCEPT ![r] = mapTo[VisitOf[e]]]
       ELSE Goto(r, "remember") /\ UNCHANGED htx
    /\ UNCHANGED <<queueVars, loopVars, hrest, hacks, ingested, mapTo, centralVars, faults>>

\* applyLocalTransactionState: completionState takes the value of the
\* payload, and a central transaction after its second weighment is finalized.
\* The refusal of a visit without a map row never happens: the event depends
\* on the one that creates the row.
ApplyState(r, e) ==
    /\ At(r, e, "state")
    /\ mapTo[VisitOf[e]] # None
    /\ completion' = [completion EXCEPT ![VisitOf[e]] = "LOCAL_COMPLETED"]
    /\ IF cstatus[mapTo[VisitOf[e]]] = "SECOND_WEIGHMENT"
       THEN Goto(r, "finalize") /\ htx' = [htx EXCEPT ![r] = mapTo[VisitOf[e]]]
       ELSE Goto(r, "remember") /\ UNCHANGED htx
    /\ UNCHANGED <<queueVars, loopVars, hrest, hacks, ingested, mapTo, centralVars, faults>>

\* finalizeTransaction claims the row with its status in the update.
Finalize(r, e) ==
    /\ At(r, e, "finalize")
    /\ cstatus[htx[r]] = "SECOND_WEIGHMENT"
    /\ cstatus' = [cstatus EXCEPT ![htx[r]] = "COMPLETED"]
    /\ Goto(r, "confirm")
    /\ UNCHANGED <<queueVars, loopVars, hrest, hacks, htx, ingested, mapTo, completion,
                   cvisit, cmaterial, cgross, ctare, faults>>

FinalizeRefused(r, e) ==
    /\ At(r, e, "finalize")
    /\ cstatus[htx[r]] # "SECOND_WEIGHMENT"
    /\ Push(r, e, "DEPENDENCY_PENDING")
    /\ UNCHANGED <<queueVars, loopVars, tableVars, faults>>

ConfirmCompletion(r, e) ==
    /\ At(r, e, "confirm")
    /\ completion' = [completion EXCEPT ![VisitOf[e]] = "CENTRAL_COMPLETED"]
    /\ Goto(r, "remember")
    /\ UNCHANGED <<queueVars, loopVars, hrest, hacks, htx, ingested, mapTo, centralVars, faults>>

\* rememberEvent: no row is written where one exists.
Remember(r, e) ==
    /\ At(r, e, "remember")
    /\ ingested' = [ingested EXCEPT ![e] = IF @ = "NONE" THEN "PROCESSED" ELSE @]
    /\ Push(r, e, IF KindOf[e] = "CREATED" /\ htx[r] = None THEN "ALREADY_PROCESSED" ELSE "ACCEPTED")
    /\ UNCHANGED <<queueVars, loopVars, mapTo, completion, centralVars, faults>>

CanRecordGross(c) == cgross[c] = None /\ cstatus[c] \in {"IDENTIFIED", "MATERIAL_CLASSIFIED"}
CanRecordTare(c)  == ctare[c] = None /\ cstatus[c] = "UNLOADED"

CanRecord(e) ==
    LET c == mapTo[VisitOf[e]] IN
    /\ c # None
    /\ IF KindOf[e] = "TARE" THEN CanRecordTare(c) ELSE CanRecordGross(c)

\* processWeight up to the checks of recordWeighment, on what it reads of the
\* central transaction.
CheckWeighment(r, e) ==
    /\ At(r, e, "weigh")
    /\ ingested[e] # "PROCESSED" /\ CanRecord(e)
    /\ htx' = [htx EXCEPT ![r] = mapTo[VisitOf[e]]]
    /\ Goto(r, "record")
    /\ UNCHANGED <<queueVars, loopVars, hrest, hacks, tableVars, faults>>

\* The commit of recordWeighment: the weighment is unique, the status of the
\* row is written whatever it is by now.  The outcome of a tare depends on the
\* gross the central transaction holds.
RecordWeighment(r, e, outcome) ==
    /\ At(r, e, "record")
    /\ IF KindOf[e] = "TARE"
       THEN /\ outcome \in {"SECOND_WEIGHMENT", "EXCEPTION"}
            /\ ctare[htx[r]] = None
            /\ ctare' = [ctare EXCEPT ![htx[r]] = e]
            /\ UNCHANGED cgross
       ELSE /\ outcome = "FIRST_WEIGHMENT"
            /\ cgross[htx[r]] = None
            /\ cgross' = [cgross EXCEPT ![htx[r]] = e]
            /\ UNCHANGED ctare
    /\ cstatus' = [cstatus EXCEPT ![htx[r]] = outcome]
    /\ Goto(r, "mark")
    /\ UNCHANGED <<queueVars, loopVars, hrest, hacks, htx, ingested, mapTo, completion,
                   cvisit, cmaterial, faults>>

\* Another handler committed the weighment after this one's checks: the
\* database refuses the row, which is no 409 but an error of its own.
WeighmentCollides(r, e) ==
    /\ At(r, e, "record")
    /\ (IF KindOf[e] = "TARE" THEN ctare ELSE cgross)[htx[r]] # None
    /\ Push(r, e, "REJECTED")
    /\ UNCHANGED <<queueVars, loopVars, tableVars, faults>>

\* Another request has processed the event meanwhile: its weighment id is
\* on the row.
WeighmentKnown(r, e) ==
    /\ At(r, e, "weigh")
    /\ ingested[e] = "PROCESSED"
    /\ Goto(r, "mark")
    /\ UNCHANGED <<queueVars, loopVars, hrest, hacks, htx, tableVars, faults>>

\* The state of the central transaction refuses the weighment: a 409.
WeighmentRefused(r, e) ==
    /\ At(r, e, "weigh")
    /\ ingested[e] # "PROCESSED" /\ ~CanRecord(e)
    /\ Push(r, e, "DEPENDENCY_PENDING")
    /\ UNCHANGED <<queueVars, loopVars, tableVars, faults>>

MarkProcessed(r, e) ==
    /\ At(r, e, "mark")
    /\ ingested' = [ingested EXCEPT ![e] = "PROCESSED"]
    /\ Push(r, e, "ACCEPTED")
    /\ UNCHANGED <<queueVars, loopVars, mapTo, completion, centralVars, faults>>

\* A database error in any step: the event is REJECTED and the handler goes
\* on with the next one.
ProcessingFails(r, e) ==
    /\ hrest[r] # {} /\ e = First(hrest[r]) /\ hpc[r] \notin {"idle", "done"}
    /\ Fault
    /\ Push(r, e, "REJECTED")
    /\ UNCHANGED <<queueVars, loopVars, tableVars>>

\* The event is stored as processed, and the audit or device update that
\* follows it fails.
AuditFails(r, e) ==
    /\ At(r, e, "remember") \/ At(r, e, "mark")
    /\ Fault
    /\ ingested' = [ingested EXCEPT ![e] =
                        IF hpc[r] = "mark" \/ @ = "NONE" THEN "PROCESSED" ELSE @]
    /\ Push(r, e, "REJECTED")
    /\ UNCHANGED <<queueVars, loopVars, mapTo, completion, centralVars>>

\* A handler answers a connection nobody reads any more.
DropReply(r) ==
    /\ hpc[r] = "done" /\ ~(phase = "waiting" /\ current = r)
    /\ hpc' = [hpc EXCEPT ![r] = "idle"]
    /\ hacks' = [hacks EXCEPT ![r] = NoAcks]
    /\ UNCHANGED <<queueVars, loopVars, hrest, htx, tableVars, faults>>

\* The API process stops: its handlers are gone, committed rows stay.
BackendCrash ==
    /\ \E r \in Request : hpc[r] # "idle"
    /\ Fault
    /\ hpc' = [r \in Request |-> "idle"]
    /\ hrest' = [r \in Request |-> {}]
    /\ hacks' = [r \in Request |-> NoAcks]
    /\ htx' = [r \in Request |-> None]
    /\ UNCHANGED <<queueVars, loopVars, tableVars>>

-----------------------------------------------------------------------------
(* What the central office does with a transaction between two events of   *)
(* the edge: the transitions of modules/transactions that ingestion waits  *)
(* for, each of them one step here.                                        *)

OfficeMoves(c, from, to) ==
    /\ cstatus[c] \in from
    /\ cstatus' = [cstatus EXCEPT ![c] = to]
    /\ UNCHANGED <<queueVars, loopVars, handlerVars, ingested, mapTo, completion,
                   cvisit, cgross, ctare, faults>>

OfficeIdentifies(c) ==
    OfficeMoves(c, {"ARRIVED"}, "IDENTIFIED") /\ UNCHANGED cmaterial

\* Material can only be assigned before the first weighment.
OfficeAssignsMaterial(c) ==
    /\ cgross[c] = None
    /\ OfficeMoves(c, {"IDENTIFIED"}, "MATERIAL_CLASSIFIED")
    /\ cmaterial' = [cmaterial EXCEPT ![c] = TRUE]

OfficeUnloads(c) ==
    cmaterial[c] /\ OfficeMoves(c, {"FIRST_WEIGHMENT"}, "UNLOADED") /\ UNCHANGED cmaterial

OfficeRejects(c) ==
    cmaterial[c] /\ OfficeMoves(c, {"FIRST_WEIGHMENT"}, "REJECTED") /\ UNCHANGED cmaterial

OfficeFinalizes(c) ==
    OfficeMoves(c, {"SECOND_WEIGHMENT"}, "COMPLETED") /\ UNCHANGED cmaterial

Office(c) ==
    \/ OfficeIdentifies(c) \/ OfficeAssignsMaterial(c) \/ OfficeUnloads(c)
    \/ OfficeRejects(c) \/ OfficeFinalizes(c)

-----------------------------------------------------------------------------

Handle(r, e) ==
    \/ PrerequisiteMissing(r, e)
    \/ AlreadyProcessed(r, e)
    \/ DetectConflict(r, e)
    \/ Dispatch(r, e)
    \/ \E c \in Central, arrival \in CentralStatus : CreateCentral(r, e, c, arrival)
    \/ MapVisit(r, e)
    \/ ApplyState(r, e)
    \/ Finalize(r, e)
    \/ FinalizeRefused(r, e)
    \/ ConfirmCompletion(r, e)
    \/ Remember(r, e)
    \/ CheckWeighment(r, e)
    \/ \E outcome \in CentralStatus : RecordWeighment(r, e, outcome)
    \/ WeighmentCollides(r, e)
    \/ WeighmentKnown(r, e)
    \/ WeighmentRefused(r, e)
    \/ MarkProcessed(r, e)

Breaks(r, e) == ProcessingFails(r, e) \/ AuditFails(r, e)

Ack(e) ==
    AckSuccess(e) \/ AckDependencyPending(e) \/ AckConflict(e) \/ AckRejected(e)

\* The steps of a tick that need no fault to happen.
Loop ==
    \/ StartTick
    \/ MarkSyncing
    \/ \E r \in Request : SendBatch(r)
    \/ ReceiveReply
    \/ BackendGone
    \/ \E e \in Event : Ack(e)
    \/ FailNext
    \/ FinishTick

Next ==
    \/ \E e \in Event : Enqueue(e) \/ RetryDue(e)
    \/ Loop
    \/ LoseReply
    \/ AckWriteFails
    \/ AbandonTick
    \/ \E r \in Request : DropReply(r)
    \/ \E r \in Request, e \in Event : Handle(r, e) \/ Breaks(r, e)
    \/ BackendCrash
    \/ \E c \in Central : Office(c)

Spec == Init /\ [][Next]_vars

\* The timer of SyncLoop.start calls tick again and again, the event loops of
\* the gateway and of the backend run every pending continuation, and time
\* passes.  Nothing obliges the office to act, nor the operator.
Fairness ==
    /\ WF_vars(Loop)
    /\ \A e \in Event : WF_vars(RetryDue(e))
    /\ \A r \in Request : WF_vars(DropReply(r)) /\ WF_vars(\E e \in Event : Handle(r, e))

FairSpec == Spec /\ Fairness

-----------------------------------------------------------------------------
(* Properties                                                              *)

QueueOK ==
    /\ status \in [Event -> QueueStatus \cup {"ABSENT"}]
    /\ retryCount \in [Event -> Nat]
    /\ backoff \in [Event -> BOOLEAN]
    /\ conflicts \subseteq Event

LoopOK ==
    /\ phase \in {"idle", "marking", "waiting", "acking", "failing"}
    /\ batch \subseteq Event /\ rest \subseteq batch
    /\ snap \in [Event -> Nat]
    /\ current \in Request \cup {None}
    /\ phase = "waiting" => current \in Request
    /\ acks \in [Event -> AckStatus \cup {None}]

HandlersOK ==
    /\ hpc \in [Request -> HandlerStep]
    /\ hrest \in [Request -> SUBSET Event]
    /\ hacks \in [Request -> [Event -> AckStatus \cup {None}]]
    /\ htx \in [Request -> Central \cup {None}]

TablesOK ==
    /\ ingested \in [Event -> {"NONE", "RECEIVED", "PROCESSED"}]
    /\ mapTo \in [Visit -> Central \cup {None}]
    /\ completion \in [Visit -> {"NONE", "LOCAL_COMPLETED", "CENTRAL_COMPLETED"}]
    /\ cstatus \in [Central -> CentralStatus \cup {"FREE"}]
    /\ cvisit \in [Central -> Visit \cup {None}]
    /\ cmaterial \in [Central -> BOOLEAN]
    /\ cgross \in [Central -> Event \cup {None}]
    /\ ctare \in [Central -> Event \cup {None}]

\* Every variable stays in its domain; the working sets of the loop and of
\* the handlers are sets of events.
TypeOK == QueueOK /\ LoopOK /\ HandlersOK /\ TablesOK /\ faults \in 0..MaxFaults

OwnCentral(v) == {c \in Central : cvisit[c] = v}

\* The event has left its mark in the central tables.
Applied(e) ==
    CASE KindOf[e] = "CREATED" -> mapTo[VisitOf[e]] # None
      [] KindOf[e] = "GROSS"   -> \E c \in OwnCentral(VisitOf[e]) : cgross[c] = e
      [] KindOf[e] = "TARE"    -> \E c \in OwnCentral(VisitOf[e]) : ctare[c] = e
      [] KindOf[e] = "STATE"   -> completion[VisitOf[e]] # "NONE"

\* complete() does not refuse a second call: the events of both report that the
\* visit is completed, and have that one effect.
SameEffect(e) ==
    {d \in Event : d = e \/ (KindOf[d] = "STATE" /\ KindOf[e] = "STATE" /\ VisitOf[d] = VisitOf[e])}

\* An event is shown as synchronized only if the backend holds what it
\* reported, whatever replies, handlers and processes were lost on the way
\* (docs/offline-first.md: never "uploaded" until the backend acknowledges).
SyncedIsApplied == \A e \in Event : status[e] = "SYNCED" => Applied(e)

\* No event of a visit has an effect on the central tables before the visit
\* itself is known there, however batches were cut, reordered or resent.
NothingBeforeItsVisit ==
    \A e \in Event :
        Applied(e) \/ ingested[e] # "NONE" => mapTo[VisitOf[e]] # None

\* A failed tick costs an event one retry, also when its acknowledgement was
\* a failure of its own: an event is given up at exactly MaxRetries failures.
RetriesAreCountedOnce ==
    \A e \in Event :
        /\ retryCount[e] <= MaxRetries
        /\ status[e] = "DEAD_LETTER" <=> retryCount[e] = MaxRetries

\* An event that was given up is never sent again nor shown as synchronized.
DeadLetterIsFinal ==
    [][\A e \in Event : status[e] = "DEAD_LETTER" => status'[e] = "DEAD_LETTER"]_vars

\* A visit the map reports as CENTRAL_COMPLETED has a completed transaction.
CentralCompletionIsTrue ==
    \A v \in Visit : completion[v] = "CENTRAL_COMPLETED" =>
        \E c \in OwnCentral(v) : cstatus[c] = "COMPLETED"

\* A conflict is recorded against a blocked transaction only, and the
\* completion of the visit was not forced on it.
ConflictIsNotOverwritten ==
    \A e \in conflicts :
        /\ cstatus[mapTo[VisitOf[e]]] \in {"REJECTED", "EXCEPTION"}
        /\ completion[VisitOf[e]] # "CENTRAL_COMPLETED"

\* A tick always ends, so the guard "syncing" never blocks the loop for good.
TickEnds == phase # "idle" ~> phase = "idle"

\* No event stays SYNCING: an interrupted tick's events are taken up again.
NoOrphan == \A e \in Event : status[e] = "SYNCING" ~> status[e] # "SYNCING"

\* The event that opens a visit is always settled, one way or the other.
VisitIsSettled ==
    \A e \in Event : KindOf[e] = "CREATED" =>
        (status[e] = "PENDING" ~> status[e] \in {"SYNCED", "DEAD_LETTER"})

\* The sync engine implements the delivery of EventDelivery.
EdgeView ==
    [e \in Event |->
        CASE status[e] = "ABSENT"      -> "absent"
          [] status[e] = "SYNCED"      -> "settled"
          [] status[e] = "DEAD_LETTER" -> "dead"
          [] OTHER                     -> "queued"]

Delivery == INSTANCE EventDelivery WITH edge <- EdgeView, applied <- {e \in Event : Applied(e)}

\* Every step of the queue, the loop and the backend is a step of EventDelivery
\* or leaves it as it is: effects happen once, in order and for good, and no
\* event is settled before its effect.
ImplementsDelivery == Delivery!Spec

-----------------------------------------------------------------------------
(* What the documentation says and the code does not keep                  *)

\* docs/offline-first.md: retrying after a lost response, edge restart or
\* store reopen must yield one business transaction.
OneBusinessTransaction == \A v \in Visit : \A b, c \in OwnCentral(v) : b = c
=============================================================================
