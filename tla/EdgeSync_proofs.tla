--------------------------- MODULE EdgeSync_proofs ---------------------------
(***************************************************************************)
(* Proofs about EdgeSync for every set of events, visits and requests and  *)
(* every bound.                                                            *)
(***************************************************************************)
EXTENDS EdgeSync, TLAPS, WellFoundedInduction

-----------------------------------------------------------------------------
(* Type correctness                                                        *)

\* The initial values are in their domains.
LEMMA InitTyped == Init => TypeOK
BY EventAssumption, BoundAssumption
   DEF Init, TypeOK, QueueOK, LoopOK, HandlersOK, TablesOK, NoAcks, HandlerStep

\* Variables a step leaves alone stay in their domains.
LEMMA UnchangedTyped ==
    /\ QueueOK /\ UNCHANGED queueVars => QueueOK'
    /\ LoopOK /\ UNCHANGED loopVars => LoopOK'
    /\ HandlersOK /\ UNCHANGED handlerVars => HandlersOK'
    /\ TablesOK /\ UNCHANGED tableVars => TablesOK'
BY DEF QueueOK, LoopOK, HandlersOK, TablesOK, queueVars, loopVars, handlerVars, tableVars

\* Only Fault changes the count of faults.
LEMMA FaultTyped ==
    faults \in 0..MaxFaults /\ (Fault \/ UNCHANGED faults) => (faults \in 0..MaxFaults)'
BY BoundAssumption DEF Fault

\* The outcome of a failed event is in its domain.
LEMMA FailTyped ==
    ASSUME QueueOK, LoopOK, NEW e, FailEvent(e), UNCHANGED conflicts
    PROVE  QueueOK'
<1>1. e \in Event => snap[e] + 1 \in Nat BY DEF LoopOK
<1>2. retryCount' \in [Event -> Nat] BY <1>1 DEF FailEvent, QueueOK
<1>3. status' \in [Event -> QueueStatus \cup {"ABSENT"}] BY DEF FailEvent, QueueOK, QueueStatus
<1>4. backoff' \in [Event -> BOOLEAN]
  <2>1. CASE e \in Event
    <3>1. (snap[e] + 1 < MaxRetries) \in BOOLEAN BY <2>1, <1>1, BoundAssumption
    <3> QED BY <3>1 DEF FailEvent, QueueOK
  <2>2. CASE e \notin Event BY <2>2 DEF FailEvent, QueueOK
  <2> QED BY <2>1, <2>2
<1> QED BY <1>2, <1>3, <1>4 DEF QueueOK

\* The steps of a tick keep the queue and the memory of the loop typed.
LEMMA TickTyped ==
    ASSUME TypeOK, Loop \/ LoseReply \/ AckWriteFails \/ AbandonTick
    PROVE  TypeOK'
<1> USE DEF TypeOK
<1>1. CASE StartTick
  <2>1. PICK B \in SUBSET Due :
            batch' = B /\ rest' = B /\ snap' = [e \in Event |-> IF e \in B THEN retryCount[e] ELSE 0]
      BY <1>1 DEF StartTick
  <2>2. Due \subseteq Event BY DEF Due
  <2>3. snap' \in [Event -> Nat] BY <2>1 DEF QueueOK
  <2>4. status' \in [Event -> QueueStatus \cup {"ABSENT"}]
      BY <1>1 DEF StartTick, Recovered, QueueOK, QueueStatus
  <2>5. QueueOK' BY <1>1, <2>4 DEF StartTick, QueueOK
  <2>6. LoopOK' BY <1>1, <2>1, <2>2, <2>3 DEF StartTick, LoopOK
  <2> QED BY <1>1, <2>5, <2>6, UnchangedTyped DEF StartTick
<1>2. CASE MarkSyncing
  <2>1. QueueOK' BY <1>2 DEF MarkSyncing, QueueOK, QueueStatus
  <2>2. LoopOK' BY <1>2 DEF MarkSyncing, LoopOK
  <2> QED BY <1>2, <2>1, <2>2, UnchangedTyped DEF MarkSyncing
<1>3. ASSUME NEW r \in Request, SendBatch(r) PROVE TypeOK'
  <2>1. LoopOK' BY <1>3 DEF SendBatch, LoopOK
  <2>2. HandlersOK' BY <1>3 DEF SendBatch, LoopOK, HandlersOK, HandlerStep, NoAcks
  <2> QED BY <1>3, <2>1, <2>2, UnchangedTyped DEF SendBatch
<1>4. CASE ReceiveReply
  <2>1. NoAcks \in [Event -> AckStatus \cup {None}] BY DEF NoAcks
  <2>2. current \in Request => hacks[current] \in [Event -> AckStatus \cup {None}]
      BY DEF HandlersOK
  <2>3. current \in Request
      BY <1>4, BoundAssumption DEF ReceiveReply, LoopOK, HandlersOK
  <2>4. LoopOK' BY <1>4, <2>2, <2>3 DEF ReceiveReply, LoopOK
  <2>5. HandlersOK' BY <1>4, <2>1 DEF ReceiveReply, HandlersOK, HandlerStep
  <2> QED BY <1>4, <2>4, <2>5, UnchangedTyped DEF ReceiveReply
<1>5. CASE BackendGone \/ LoseReply
  <2>1. LoopOK' BY <1>5 DEF BackendGone, LoseReply, RequestFails, LoopOK
  <2> QED BY <1>5, <2>1, UnchangedTyped, FaultTyped DEF BackendGone, LoseReply, RequestFails
<1>6. ASSUME NEW e \in Event, Ack(e) PROVE TypeOK'
  <2>1. AckNext(e)
      BY <1>6 DEF Ack, AckSuccess, AckDependencyPending, AckConflict, AckRejected
  <2>2. LoopOK' BY <2>1 DEF AckNext, LoopOK
  <2>3. QueueOK'
    <3>1. CASE AckSuccess(e) BY <3>1 DEF AckSuccess, QueueOK, QueueStatus
    <3>2. CASE AckDependencyPending(e) BY <3>2 DEF AckDependencyPending, QueueOK, QueueStatus
    <3>3. CASE AckConflict(e) BY <3>3 DEF AckConflict, QueueOK, QueueStatus
    <3>4. CASE AckRejected(e) BY <3>4, FailTyped DEF AckRejected
    <3> QED BY <1>6, <3>1, <3>2, <3>3, <3>4 DEF Ack
  <2> QED BY <2>1, <2>2, <2>3, UnchangedTyped DEF AckNext
<1>7. CASE FailNext
  <2>1. QueueOK' BY <1>7, FailTyped DEF FailNext
  <2>2. LoopOK' BY <1>7 DEF FailNext, LoopOK
  <2> QED BY <1>7, <2>1, <2>2, UnchangedTyped DEF FailNext
<1>8. CASE FinishTick \/ AbandonTick
  <2>1. LoopOK' BY <1>8 DEF FinishTick, AbandonTick, ForgetTick, LoopOK, NoAcks
  <2> QED BY <1>8, <2>1, UnchangedTyped, FaultTyped DEF FinishTick, AbandonTick
<1>9. CASE AckWriteFails
  <2>1. LoopOK' BY <1>9 DEF AckWriteFails, LoopOK
  <2> QED BY <1>9, <2>1, UnchangedTyped, FaultTyped DEF AckWriteFails
<1> QED BY <1>1, <1>2, <1>3, <1>4, <1>5, <1>6, <1>7, <1>8, <1>9 DEF Loop

\* A handler's results stay typed when it pushes one and turns on.
LEMMA PushTyped ==
    ASSUME HandlersOK, NEW r \in Request, NEW e, NEW ack \in AckStatus, Push(r, e, ack)
    PROVE  HandlersOK'
BY DEF HandlersOK, Push, HandlerStep

\* A handler that goes on to another step stays typed.
LEMMA GotoTyped ==
    ASSUME HandlersOK, NEW r \in Request, NEW pc \in HandlerStep, Goto(r, pc),
           UNCHANGED <<hrest, hacks>>,
           \/ UNCHANGED htx
           \/ \E c \in Central : htx' = [htx EXCEPT ![r] = c]
    PROVE  HandlersOK'
BY DEF HandlersOK, Goto

\* The steps of a request handler keep handlers and tables typed.
LEMMA HandleTyped ==
    ASSUME TypeOK, NEW r \in Request, NEW e \in Event, Handle(r, e) \/ Breaks(r, e)
    PROVE  TypeOK'
<1> USE EventAssumption DEF TypeOK
<1>1. /\ UNCHANGED <<queueVars, loopVars>>
      /\ UNCHANGED faults \/ Fault
  BY DEF Handle, PrerequisiteMissing, AlreadyProcessed, DetectConflict, Dispatch, CreateCentral,
         MapVisit, ApplyState, Finalize, FinalizeRefused, ConfirmCompletion,
         Remember, CheckWeighment, RecordWeighment, WeighmentCollides, WeighmentKnown, WeighmentRefused,
         MarkProcessed, Breaks, ProcessingFails, AuditFails
<1>2. QueueOK' /\ LoopOK' /\ (faults \in 0..MaxFaults)'
  BY <1>1, UnchangedTyped, FaultTyped
<1> SUFFICES HandlersOK' /\ TablesOK'
  BY <1>2
<1>3. CASE \/ PrerequisiteMissing(r, e) \/ AlreadyProcessed(r, e) \/ DetectConflict(r, e)
           \/ FinalizeRefused(r, e) \/ WeighmentRefused(r, e)
           \/ WeighmentCollides(r, e) \/ ProcessingFails(r, e)
  BY <1>3, PushTyped, UnchangedTyped
     DEF PrerequisiteMissing, AlreadyProcessed, DetectConflict, FinalizeRefused,
         WeighmentRefused, WeighmentCollides, ProcessingFails, AckStatus
<1>4. CASE Dispatch(r, e)
  <2>1. TablesOK' BY <1>4 DEF Dispatch, TablesOK, centralVars
  <2>2. HandlersOK' BY <1>4, GotoTyped DEF Dispatch, HandlerStep
  <2> QED BY <2>1, <2>2
<1>5. ASSUME NEW c \in Central, NEW arrival \in CentralStatus, CreateCentral(r, e, c, arrival)
      PROVE  HandlersOK' /\ TablesOK'
  <2>1. TablesOK' BY <1>5 DEF CreateCentral, TablesOK
  <2>2. HandlersOK' BY <1>5, GotoTyped DEF CreateCentral, HandlerStep
  <2> QED BY <2>1, <2>2
<1>6. CASE MapVisit(r, e)
  <2>1. TablesOK' BY <1>6 DEF MapVisit, TablesOK, HandlersOK, centralVars
  <2>2. HandlersOK' BY <1>6, GotoTyped DEF MapVisit, HandlerStep
  <2> QED BY <2>1, <2>2
<1>7. CASE ApplyState(r, e)
  <2>1. TablesOK' BY <1>7 DEF ApplyState, TablesOK, centralVars
  <2>2. mapTo[VisitOf[e]] \in Central BY <1>7 DEF ApplyState, TablesOK
  <2>3. HandlersOK' BY <1>7, <2>2, GotoTyped DEF ApplyState, HandlerStep
  <2> QED BY <2>1, <2>3
<1>8. CASE Finalize(r, e)
  <2>1. TablesOK' BY <1>8 DEF Finalize, TablesOK, CentralStatus
  <2>2. HandlersOK' BY <1>8, GotoTyped DEF Finalize, HandlerStep
  <2> QED BY <2>1, <2>2
<1>9. CASE ConfirmCompletion(r, e)
  <2>1. TablesOK' BY <1>9 DEF ConfirmCompletion, TablesOK, centralVars
  <2>2. HandlersOK' BY <1>9, GotoTyped DEF ConfirmCompletion, HandlerStep
  <2> QED BY <2>1, <2>2
<1>10. CASE Remember(r, e)
  <2>1. TablesOK' BY <1>10 DEF Remember, TablesOK, centralVars
  <2>2. HandlersOK' BY <1>10, PushTyped DEF Remember, AckStatus
  <2> QED BY <2>1, <2>2
<1>11. ASSUME NEW outcome \in CentralStatus, RecordWeighment(r, e, outcome)
       PROVE  HandlersOK' /\ TablesOK'
  <2> DEFINE c == htx[r]
  <2>1. /\ cstatus' = [cstatus EXCEPT ![c] = outcome]
        /\ cgross' = cgross \/ cgross' = [cgross EXCEPT ![c] = e]
        /\ ctare' = ctare \/ ctare' = [ctare EXCEPT ![c] = e]
        /\ UNCHANGED <<ingested, mapTo, completion, cvisit, cmaterial>>
    BY <1>11 DEF RecordWeighment
  <2> HIDE DEF c
  <2>3. TablesOK'
    <3>1. cstatus' \in [Central -> CentralStatus \cup {"FREE"}] BY <2>1 DEF TablesOK
    <3>2. cgross' \in [Central -> Event \cup {None}] BY <2>1 DEF TablesOK
    <3>3. ctare' \in [Central -> Event \cup {None}] BY <2>1 DEF TablesOK
    <3> QED BY <2>1, <3>1, <3>2, <3>3 DEF TablesOK
  <2>2. HandlersOK' BY <1>11, GotoTyped DEF RecordWeighment, HandlerStep
  <2> QED BY <2>2, <2>3
<1>12. CASE WeighmentKnown(r, e)
  BY <1>12, GotoTyped, UnchangedTyped DEF WeighmentKnown, HandlerStep
<1>13. CASE MarkProcessed(r, e)
  <2>1. TablesOK' BY <1>13 DEF MarkProcessed, TablesOK, centralVars
  <2>2. HandlersOK' BY <1>13, PushTyped DEF MarkProcessed, AckStatus
  <2> QED BY <2>1, <2>2
<1>14. CASE CheckWeighment(r, e)
  <2>1. mapTo[VisitOf[e]] \in Central BY <1>14 DEF CheckWeighment, CanRecord, TablesOK
  <2>2. HandlersOK' BY <1>14, <2>1, GotoTyped DEF CheckWeighment, HandlerStep
  <2> QED BY <1>14, <2>2, UnchangedTyped DEF CheckWeighment
<1>15. CASE AuditFails(r, e)
  <2>1. TablesOK' BY <1>15 DEF AuditFails, TablesOK, centralVars
  <2>2. HandlersOK' BY <1>15, PushTyped DEF AuditFails, AckStatus
  <2> QED BY <2>1, <2>2
<1> QED
  BY <1>3, <1>4, <1>5, <1>6, <1>7, <1>8, <1>9, <1>10, <1>11, <1>12, <1>13, <1>14, <1>15
     DEF Handle, Breaks

\* The steps of the operator, the clock, the server and the office.
LEMMA OtherTyped ==
    ASSUME TypeOK,
           \/ \E e \in Event : Enqueue(e) \/ RetryDue(e)
           \/ \E r \in Request : DropReply(r)
           \/ BackendCrash
           \/ \E c \in Central : Office(c)
    PROVE  TypeOK'
<1> USE DEF TypeOK
<1>1. ASSUME NEW e \in Event, Enqueue(e) \/ RetryDue(e) PROVE TypeOK'
  <2>1. QueueOK' BY <1>1 DEF Enqueue, RetryDue, QueueOK, QueueStatus
  <2> QED BY <1>1, <2>1, UnchangedTyped, FaultTyped DEF Enqueue, RetryDue
<1>2. ASSUME NEW r \in Request, DropReply(r) PROVE TypeOK'
  <2>1. HandlersOK' BY <1>2 DEF DropReply, HandlersOK, HandlerStep, NoAcks
  <2> QED BY <1>2, <2>1, UnchangedTyped, FaultTyped DEF DropReply
<1>3. CASE BackendCrash
  <2>1. HandlersOK' BY <1>3 DEF BackendCrash, HandlersOK, HandlerStep, NoAcks
  <2> QED BY <1>3, <2>1, UnchangedTyped, FaultTyped DEF BackendCrash
<1>4. ASSUME NEW c \in Central, Office(c) PROVE TypeOK'
  <2>1. TablesOK'
    BY <1>4 DEF Office, OfficeIdentifies, OfficeAssignsMaterial, OfficeUnloads, OfficeRejects,
                OfficeFinalizes, OfficeMoves, TablesOK, CentralStatus
  <2>2. UNCHANGED <<queueVars, loopVars, handlerVars, faults>>
    BY <1>4 DEF Office, OfficeIdentifies, OfficeAssignsMaterial, OfficeUnloads, OfficeRejects,
                OfficeFinalizes, OfficeMoves
  <2> QED BY <2>1, <2>2, UnchangedTyped, FaultTyped
<1> QED BY <1>1, <1>2, <1>3, <1>4

\* Every variable of the sync engine stays in its domain, through every step
\* of the loop, the handlers and the office and through every fault.
THEOREM TypeCorrect == Spec => []TypeOK
<1>1. TypeOK /\ [Next]_vars => TypeOK'
  <2> SUFFICES ASSUME TypeOK, [Next]_vars PROVE TypeOK' OBVIOUS
  <2>1. CASE Next
    BY <2>1, TickTyped, HandleTyped, OtherTyped DEF Next
  <2>2. CASE UNCHANGED vars
    BY <2>2, UnchangedTyped, FaultTyped DEF vars, TypeOK
  <2> QED BY <2>1, <2>2
<1> QED BY InitTyped, <1>1, PTL DEF Spec

-----------------------------------------------------------------------------
(* What is synchronized has had its effect                                 *)

\* A transaction that does not exist yet carries no weighment, and the map
\* leads a visit to a transaction of its own.
TablesKnow ==
    /\ \A c \in Central : cstatus[c] = "FREE" => cgross[c] = None /\ ctare[c] = None
    /\ \A v \in Visit : mapTo[v] # None => cstatus[mapTo[v]] # "FREE" /\ cvisit[mapTo[v]] = v
    /\ \A e \in Event : ingested[e] = "PROCESSED" => Applied(e)

\* A successful result of a handler, and a handler past the write that
\* applies its event, speak of an event that is applied.
HandlerKnows(r) ==
    /\ \A e \in Event : hacks[r][e] \in SuccessfulAck => Applied(e)
    /\ \A e \in Event : hrest[r] # {} /\ e = First(hrest[r]) =>
          /\ hpc[r] \in {"create", "map"} => KindOf[e] = "CREATED"
          /\ hpc[r] \in {"map", "record"} => /\ htx[r] # None
                                            /\ cstatus[htx[r]] # "FREE"
                                            /\ cvisit[htx[r]] = VisitOf[e]
          /\ hpc[r] \in {"state", "finalize", "confirm"} => KindOf[e] = "STATE"
          /\ hpc[r] \in {"weigh", "record"} => KindOf[e] \in {"GROSS", "TARE"}
          /\ hpc[r] \in {"finalize", "confirm", "remember", "mark"} => Applied(e)

LoopKnows ==
    \A e \in Event : acks[e] \in SuccessfulAck \/ status[e] = "SYNCED" => Applied(e)

\* The inductive invariant behind SyncedIsApplied.
Known == TablesKnow /\ (\A r \in Request : HandlerKnows(r)) /\ LoopKnows

\* Effects and transactions never vanish.
Stays ==
    /\ \A e \in Event : Applied(e) => Applied(e)'
    /\ \A c \in Central : cstatus[c] # "FREE" => cstatus'[c] # "FREE" /\ cvisit'[c] = cvisit[c]

\* A step that writes no table keeps every effect.
LEMMA QuietTables ==
    ASSUME UNCHANGED tableVars
    PROVE  Stays /\ (TablesKnow => TablesKnow')
<1>1. UNCHANGED <<ingested, mapTo, completion, cstatus, cvisit, cgross, ctare>>
  BY DEF tableVars
<1>2. \A e : Applied(e)' <=> Applied(e) BY <1>1 DEF Applied, OwnCentral
<1> QED BY <1>1, <1>2 DEF Stays, TablesKnow

\* A handler that does not move keeps what it knows.
LEMMA QuietHandler ==
    ASSUME TypeOK, Stays, NEW r \in Request, HandlerKnows(r),
           hpc'[r] = hpc[r], hrest'[r] = hrest[r], hacks'[r] = hacks[r], htx'[r] = htx[r]
    PROVE  HandlerKnows(r)'
BY DEF TypeOK, HandlersOK, Stays, HandlerKnows, First

\* So does the loop, if its acknowledgements and the queue do not change.
LEMMA QuietLoop ==
    ASSUME LoopKnows, Stays, UNCHANGED <<acks, status>>
    PROVE  LoopKnows'
BY DEF LoopKnows, Stays

\* A handler between two events, or at none, has nothing to know but its results.
LEMMA RestingHandler ==
    ASSUME NEW r \in Request, hpc'[r] \in {"idle", "next", "done"},
           \A e \in Event : hacks'[r][e] \in SuccessfulAck => Applied(e)'
    PROVE  HandlerKnows(r)'
BY DEF HandlerKnows

\* A step of one handler leaves the others as they are.
LEMMA OtherHandlers ==
    ASSUME TypeOK, Known, Stays, NEW r \in Request, NEW e \in Event,
           Handle(r, e) \/ Breaks(r, e)
    PROVE  /\ LoopKnows'
           /\ \A q \in Request : q # r => HandlerKnows(q)'
<1>1. UNCHANGED <<queueVars, loopVars>>
  BY DEF Handle, PrerequisiteMissing, AlreadyProcessed, DetectConflict, Dispatch, CreateCentral,
         MapVisit, ApplyState, Finalize, FinalizeRefused, ConfirmCompletion,
         Remember, CheckWeighment, RecordWeighment, WeighmentCollides, WeighmentKnown, WeighmentRefused,
         MarkProcessed, Breaks, ProcessingFails, AuditFails
<1>2. ASSUME NEW q \in Request, q # r
      PROVE  hpc'[q] = hpc[q] /\ hrest'[q] = hrest[q] /\ hacks'[q] = hacks[q] /\ htx'[q] = htx[q]
  BY <1>2
     DEF TypeOK, HandlersOK, Push, Goto,
         Handle, PrerequisiteMissing, AlreadyProcessed, DetectConflict, Dispatch, CreateCentral,
         MapVisit, ApplyState, Finalize, FinalizeRefused, ConfirmCompletion,
         Remember, CheckWeighment, RecordWeighment, WeighmentCollides, WeighmentKnown, WeighmentRefused,
         MarkProcessed, Breaks, ProcessingFails, AuditFails
<1>3. LoopKnows' BY <1>1, QuietLoop DEF Known, queueVars, loopVars
<1> QED BY <1>2, <1>3, QuietHandler DEF Known

\* A result is pushed: a successful one for an applied event only.
LEMMA PushKnows ==
    ASSUME TypeOK, Stays, NEW r \in Request, NEW e \in Event, NEW ack, HandlerKnows(r),
           Push(r, e, ack), ack \in SuccessfulAck => Applied(e)'
    PROVE  HandlerKnows(r)'
<1>1. hpc'[r] \in {"next", "done"} BY DEF Push, TypeOK, HandlersOK
<1>2. ASSUME NEW d \in Event, hacks'[r][d] \in SuccessfulAck PROVE Applied(d)'
  BY <1>2 DEF Push, TypeOK, HandlersOK, HandlerKnows, Stays
<1> QED BY <1>1, <1>2, RestingHandler

\* An effect stays if the map, the completions and the weighments only grow.
LEMMA EffectsStay ==
    ASSUME \A v \in Visit : (mapTo[v] # None => mapTo'[v] # None)
                          /\ (completion[v] # "NONE" => completion'[v] # "NONE"),
           \A c \in Central, d \in Event : /\ (cgross[c] = d => cgross'[c] = d)
                                         /\ (ctare[c] = d => ctare'[c] = d),
           cvisit' = cvisit
    PROVE  \A d \in Event : Applied(d) => Applied(d)'
<1> USE EventAssumption
<1> SUFFICES ASSUME NEW d \in Event, Applied(d) PROVE Applied(d)' OBVIOUS
<1>1. VisitOf[d] \in Visit /\ KindOf[d] \in Kinds OBVIOUS
<1>2. CASE KindOf[d] = "CREATED" BY <1>1, <1>2 DEF Applied
<1>3. CASE KindOf[d] = "GROSS"
  <2>1. PICK c \in OwnCentral(VisitOf[d]) : cgross[c] = d BY <1>3 DEF Applied
  <2>2. c \in OwnCentral(VisitOf[d])' /\ cgross'[c] = d BY <2>1 DEF OwnCentral
  <2> QED BY <1>3, <2>2 DEF Applied
<1>4. CASE KindOf[d] = "TARE"
  <2>1. PICK c \in OwnCentral(VisitOf[d]) : ctare[c] = d BY <1>4 DEF Applied
  <2>2. c \in OwnCentral(VisitOf[d])' /\ ctare'[c] = d BY <2>1 DEF OwnCentral
  <2> QED BY <1>4, <2>2 DEF Applied
<1>5. CASE KindOf[d] = "STATE" BY <1>1, <1>5 DEF Applied
<1> QED BY <1>1, <1>2, <1>3, <1>4, <1>5 DEF Kinds

\* A step of a handler keeps the invariant.
LEMMA HandleKeepsKnown ==
    ASSUME TypeOK, Known, NEW r \in Request, NEW e \in Event, Handle(r, e) \/ Breaks(r, e)
    PROVE  Known' /\ Stays
<1> USE EventAssumption, BoundAssumption
<1>k. TablesKnow /\ HandlerKnows(r) BY DEF Known
<1>v. VisitOf[e] \in Visit /\ KindOf[e] \in Kinds OBVIOUS
<1> SUFFICES Stays /\ TablesKnow' /\ HandlerKnows(r)'
  BY OtherHandlers DEF Known
<1>1. CASE \/ PrerequisiteMissing(r, e) \/ DetectConflict(r, e)
           \/ FinalizeRefused(r, e) \/ WeighmentRefused(r, e)
           \/ WeighmentCollides(r, e) \/ ProcessingFails(r, e)
  <2>1. UNCHANGED tableVars
    BY <1>1 DEF PrerequisiteMissing, DetectConflict, FinalizeRefused,
                WeighmentRefused, WeighmentCollides, ProcessingFails
  <2>2. \E ack \in {"DEPENDENCY_PENDING", "CONFLICT", "REJECTED"} : Push(r, e, ack)
    BY <1>1 DEF PrerequisiteMissing, DetectConflict, FinalizeRefused,
                WeighmentRefused, WeighmentCollides, ProcessingFails
  <2>3. Stays /\ TablesKnow' BY <1>k, <2>1, QuietTables
  <2>4. PICK ack \in {"DEPENDENCY_PENDING", "CONFLICT", "REJECTED"} : Push(r, e, ack)
    BY <2>2
  <2>5. ack \notin SuccessfulAck BY DEF SuccessfulAck
  <2>6. HandlerKnows(r)' BY <1>k, <2>3, <2>4, <2>5, PushKnows
  <2> QED BY <2>3, <2>6
<1>2. CASE AlreadyProcessed(r, e)
  <2>1. UNCHANGED tableVars /\ Push(r, e, "ALREADY_PROCESSED") /\ ingested[e] = "PROCESSED"
    BY <1>2 DEF AlreadyProcessed
  <2>2. Applied(e) BY <1>k, <2>1 DEF TablesKnow
  <2>3. Stays /\ TablesKnow' BY <1>k, <2>1, QuietTables
  <2>4. Applied(e)' BY <2>2, <2>3 DEF Stays
  <2>5. HandlerKnows(r)' BY <1>k, <2>1, <2>3, <2>4, PushKnows
  <2> QED BY <2>3, <2>5
<1>3. CASE Dispatch(r, e)
  <2>1. UNCHANGED <<mapTo, completion, cstatus, cvisit, cgross, ctare, hrest, hacks, htx>>
    BY <1>3 DEF Dispatch, centralVars
  <2>2. \A d : Applied(d)' <=> Applied(d) BY <2>1 DEF Applied, OwnCentral
  <2>3. \A d \in Event : ingested'[d] = "PROCESSED" => ingested[d] = "PROCESSED"
    BY <1>3 DEF Dispatch, TypeOK, TablesOK
  <2>4. Stays /\ TablesKnow' BY <1>k, <2>1, <2>2, <2>3 DEF Stays, TablesKnow
  <2>5. e = First(hrest[r]) /\ hpc[r] = "next" BY <1>3 DEF Dispatch, Fresh, Ready, At
  <2>6. \/ hpc'[r] = "create" /\ KindOf[e] = "CREATED"
        \/ hpc'[r] = "remember" /\ KindOf[e] = "CREATED" /\ mapTo[VisitOf[e]] # None
        \/ hpc'[r] = "state" /\ KindOf[e] = "STATE"
        \/ hpc'[r] = "weigh" /\ KindOf[e] \in {"GROSS", "TARE"}
    BY <1>3, <1>v DEF Dispatch, Goto, Kinds, TypeOK, HandlersOK
  <2>7. \A d \in Event : d = First(hrest'[r]) => d = e BY <2>1, <2>5
  <2>8. KindOf[e] = "CREATED" /\ mapTo[VisitOf[e]] # None => Applied(e) BY DEF Applied
  <2>9. HandlerKnows(r)' BY <1>k, <2>1, <2>2, <2>6, <2>7, <2>8 DEF HandlerKnows
  <2> QED BY <2>4, <2>9
<1>4. ASSUME NEW c \in Central, NEW arrival \in CentralStatus, CreateCentral(r, e, c, arrival)
      PROVE  Stays /\ TablesKnow' /\ HandlerKnows(r)'
  <2>1. /\ At(r, e, "create") /\ cstatus[c] = "FREE" /\ arrival # "FREE"
        /\ UNCHANGED <<ingested, mapTo, completion, cgross, ctare, hrest, hacks>>
        /\ cstatus' = [cstatus EXCEPT ![c] = arrival]
        /\ cvisit' = [cvisit EXCEPT ![c] = VisitOf[e]]
        /\ htx' = [htx EXCEPT ![r] = c] /\ hpc' = [hpc EXCEPT ![r] = "map"]
    BY <1>4 DEF CreateCentral, Goto
  <2>2. cgross[c] = None /\ ctare[c] = None BY <1>k, <2>1 DEF TablesKnow
  <2>3. \A d \in Event : Applied(d) => Applied(d)'
    BY <2>1, <2>2 DEF Applied, OwnCentral, TypeOK, TablesOK
  <2>4. Stays BY <2>1, <2>3 DEF Stays, TypeOK, TablesOK
  <2>5. TablesKnow' BY <1>k, <2>1, <2>2, <2>3 DEF TablesKnow, TypeOK, TablesOK
  <2>6. HandlerKnows(r)'
    <3>1. /\ hpc'[r] = "map" /\ htx'[r] = c /\ htx'[r] # None
          /\ cstatus'[htx'[r]] # "FREE" /\ cvisit'[htx'[r]] = VisitOf[e]
      BY <2>1 DEF TypeOK, HandlersOK, TablesOK
    <3>2. \A d \in Event : d = First(hrest'[r]) => d = e BY <2>1 DEF At
    <3>3. KindOf[e] = "CREATED" BY <1>k, <2>1 DEF HandlerKnows, At
    <3> QED BY <1>k, <2>1, <2>3, <3>1, <3>2, <3>3 DEF HandlerKnows
  <2> QED BY <2>4, <2>5, <2>6
<1>5. CASE MapVisit(r, e)
  <2>1. /\ At(r, e, "map")
        /\ UNCHANGED <<ingested, completion, cstatus, cvisit, cgross, ctare, hrest, hacks, htx>>
        /\ mapTo' = [mapTo EXCEPT ![VisitOf[e]] = htx[r]] /\ hpc' = [hpc EXCEPT ![r] = "remember"]
    BY <1>5 DEF MapVisit, Goto, centralVars
  <2>2. /\ KindOf[e] = "CREATED" /\ htx[r] # None
        /\ cstatus[htx[r]] # "FREE" /\ cvisit[htx[r]] = VisitOf[e]
    BY <1>k, <2>1 DEF HandlerKnows, At
  <2>3. \A v \in Visit : mapTo[v] # None => mapTo'[v] # None
    BY <2>1, <2>2 DEF TypeOK, TablesOK
  <2>4. \A d \in Event : Applied(d) => Applied(d)' BY <2>1, <2>3, EffectsStay
  <2>5. Applied(e)' BY <1>v, <2>1, <2>2 DEF Applied, TypeOK, TablesOK
  <2>6. Stays BY <2>1, <2>4 DEF Stays
  <2>7. TablesKnow' BY <1>k, <2>1, <2>2, <2>4 DEF TablesKnow, TypeOK, TablesOK
  <2>8. HandlerKnows(r)'
    <3>1. hpc'[r] = "remember" BY <2>1 DEF TypeOK, HandlersOK
    <3>2. \A d \in Event : d = First(hrest'[r]) => d = e BY <2>1 DEF At
    <3> QED BY <1>k, <2>1, <2>4, <2>5, <3>1, <3>2 DEF HandlerKnows
  <2> QED BY <2>6, <2>7, <2>8
<1>6. CASE ApplyState(r, e)
  <2>1. /\ At(r, e, "state")
        /\ UNCHANGED <<ingested, mapTo, cstatus, cvisit, cgross, ctare, hrest, hacks>>
        /\ completion' = [completion EXCEPT ![VisitOf[e]] = "LOCAL_COMPLETED"]
    BY <1>6 DEF ApplyState, centralVars
  <2>2. hpc'[r] \in {"finalize", "remember"}
    BY <1>6 DEF ApplyState, Goto, TypeOK, HandlersOK
  <2>3. \A v \in Visit : completion[v] # "NONE" => completion'[v] # "NONE"
    BY <2>1 DEF TypeOK, TablesOK
  <2>4. \A d \in Event : Applied(d) => Applied(d)' BY <2>1, <2>3, EffectsStay
  <2>5. KindOf[e] = "STATE" BY <1>k, <2>1 DEF HandlerKnows, At
  <2>6. completion'[VisitOf[e]] # "NONE" BY <1>v, <2>1 DEF TypeOK, TablesOK
  <2>7. Applied(e)' BY <2>5, <2>6 DEF Applied
  <2>8. Stays BY <2>1, <2>4 DEF Stays
  <2>9. TablesKnow' BY <1>k, <2>1, <2>4 DEF TablesKnow
  <2>10. HandlerKnows(r)'
    <3>1. \A d \in Event : d = First(hrest'[r]) => d = e BY <2>1 DEF At
    <3> QED BY <1>k, <2>1, <2>2, <2>4, <2>5, <2>7, <3>1 DEF HandlerKnows
  <2> QED BY <2>8, <2>9, <2>10
<1>7. CASE Finalize(r, e)
  <2>1. /\ At(r, e, "finalize")
        /\ UNCHANGED <<ingested, mapTo, completion, cvisit, cgross, ctare, hrest, hacks, htx>>
        /\ cstatus[htx[r]] = "SECOND_WEIGHMENT"
        /\ cstatus' = [cstatus EXCEPT ![htx[r]] = "COMPLETED"] /\ hpc' = [hpc EXCEPT ![r] = "confirm"]
    BY <1>7 DEF Finalize, Goto
  <2>2. \A d : Applied(d)' <=> Applied(d) BY <2>1 DEF Applied, OwnCentral
  <2>3. \A c \in Central : cstatus'[c] = "FREE" <=> cstatus[c] = "FREE"
    BY <2>1 DEF TypeOK, TablesOK
  <2>4. Stays BY <2>1, <2>2, <2>3 DEF Stays
  <2>5. TablesKnow' BY <1>k, <2>1, <2>2, <2>3 DEF TablesKnow, TypeOK, TablesOK
  <2>6. HandlerKnows(r)'
    <3>1. hpc'[r] = "confirm" BY <2>1 DEF TypeOK, HandlersOK
    <3>2. \A d \in Event : d = First(hrest'[r]) => d = e BY <2>1 DEF At
    <3>3. KindOf[e] = "STATE" /\ Applied(e) BY <1>k, <2>1 DEF HandlerKnows, At
    <3> QED BY <1>k, <2>1, <2>2, <3>1, <3>2, <3>3 DEF HandlerKnows
  <2> QED BY <2>4, <2>5, <2>6
<1>8. CASE ConfirmCompletion(r, e)
  <2>1. /\ At(r, e, "confirm")
        /\ UNCHANGED <<ingested, mapTo, cstatus, cvisit, cgross, ctare, hrest, hacks>>
        /\ completion' = [completion EXCEPT ![VisitOf[e]] = "CENTRAL_COMPLETED"]
        /\ hpc' = [hpc EXCEPT ![r] = "remember"]
    BY <1>8 DEF ConfirmCompletion, Goto, centralVars
  <2>2. \A v \in Visit : completion[v] # "NONE" => completion'[v] # "NONE"
    BY <2>1 DEF TypeOK, TablesOK
  <2>3. \A d \in Event : Applied(d) => Applied(d)' BY <2>1, <2>2, EffectsStay
  <2>4. Applied(e) BY <1>k, <2>1 DEF HandlerKnows, At
  <2>5. Stays BY <2>1, <2>3 DEF Stays
  <2>6. TablesKnow' BY <1>k, <2>1, <2>3 DEF TablesKnow
  <2>7. HandlerKnows(r)'
    <3>1. hpc'[r] = "remember" BY <2>1 DEF TypeOK, HandlersOK
    <3>2. \A d \in Event : d = First(hrest'[r]) => d = e BY <2>1 DEF At
    <3> QED BY <1>k, <2>1, <2>3, <2>4, <3>1, <3>2 DEF HandlerKnows
  <2> QED BY <2>5, <2>6, <2>7
<1>9. CASE Remember(r, e) \/ MarkProcessed(r, e) \/ AuditFails(r, e)
  <2>1. hpc[r] \in {"remember", "mark"} /\ hrest[r] # {} /\ e = First(hrest[r])
    BY <1>9 DEF Remember, MarkProcessed, AuditFails, At
  <2>2. Applied(e) BY <1>k, <2>1 DEF HandlerKnows
  <2>3. UNCHANGED <<mapTo, completion, cstatus, cvisit, cgross, ctare>>
    BY <1>9 DEF Remember, MarkProcessed, AuditFails, centralVars
  <2>4. \A d : Applied(d)' <=> Applied(d) BY <2>3 DEF Applied, OwnCentral
  <2>5. \A d \in Event : d # e => ingested'[d] = ingested[d]
    BY <1>9 DEF Remember, MarkProcessed, AuditFails, TypeOK, TablesOK
  <2>6. Stays /\ TablesKnow' BY <1>k, <2>2, <2>3, <2>4, <2>5 DEF Stays, TablesKnow
  <2>7. \E ack : Push(r, e, ack) BY <1>9 DEF Remember, MarkProcessed, AuditFails
  <2> QED BY <1>k, <2>2, <2>4, <2>6, <2>7, PushKnows
<1>10. ASSUME NEW outcome \in CentralStatus, RecordWeighment(r, e, outcome)
       PROVE  Stays /\ TablesKnow' /\ HandlerKnows(r)'
  <2> DEFINE c == htx[r]
  <2>1. /\ At(r, e, "record")
        /\ UNCHANGED <<ingested, mapTo, completion, cvisit, hrest, hacks, htx>>
        /\ hpc' = [hpc EXCEPT ![r] = "mark"]
    BY <1>10 DEF RecordWeighment, Goto
  <2>2. c \in Central /\ cstatus[c] # "FREE" /\ cvisit[c] = VisitOf[e]
    BY <1>k, <2>1 DEF At, HandlerKnows, TypeOK, HandlersOK
  <2>3. KindOf[e] \in {"GROSS", "TARE"} BY <1>k, <2>1 DEF HandlerKnows, At
  <2>4. cstatus' = [cstatus EXCEPT ![c] = outcome] /\ outcome # "FREE"
    BY <1>10 DEF RecordWeighment, CentralStatus
  <2>5. \/ /\ KindOf[e] = "TARE" /\ ctare[c] = None
           /\ ctare' = [ctare EXCEPT ![c] = e] /\ cgross' = cgross
        \/ /\ KindOf[e] = "GROSS" /\ cgross[c] = None
           /\ cgross' = [cgross EXCEPT ![c] = e] /\ ctare' = ctare
    BY <1>10, <2>1, <2>3 DEF RecordWeighment
  <2>6. \A b \in Central, d \in Event :
           (cgross[b] = d => cgross'[b] = d) /\ (ctare[b] = d => ctare'[b] = d)
    BY <2>2, <2>5 DEF TypeOK, TablesOK
  <2>7. \A d \in Event : Applied(d) => Applied(d)' BY <2>1, <2>6, EffectsStay
  <2>8. Applied(e)'
    <3>1. c \in OwnCentral(VisitOf[e])' BY <2>1, <2>2 DEF OwnCentral
    <3>2. CASE KindOf[e] = "TARE"
      <4>1. ctare'[c] = e BY <2>2, <2>5, <3>2 DEF TypeOK, TablesOK
      <4> QED BY <3>1, <3>2, <4>1 DEF Applied
    <3>3. CASE KindOf[e] = "GROSS"
      <4>1. cgross'[c] = e BY <2>2, <2>5, <3>3 DEF TypeOK, TablesOK
      <4> QED BY <3>1, <3>3, <4>1 DEF Applied
    <3> QED BY <2>3, <3>2, <3>3
  <2>9. \A b \in Central : cstatus[b] # "FREE" => cstatus'[b] # "FREE"
    BY <2>2, <2>4 DEF TypeOK, TablesOK
  <2>10. Stays BY <2>1, <2>7, <2>9 DEF Stays
  <2>11. \A b \in Central : cstatus'[b] = "FREE" => cgross'[b] = None /\ ctare'[b] = None
    BY <1>k, <2>2, <2>4, <2>5 DEF TablesKnow, TypeOK, TablesOK
  <2>12. \A v \in Visit : mapTo'[v] # None => cstatus'[mapTo'[v]] # "FREE" /\ cvisit'[mapTo'[v]] = v
    BY <1>k, <2>1, <2>9 DEF TablesKnow, TypeOK, TablesOK
  <2>13. TablesKnow' BY <1>k, <2>1, <2>7, <2>11, <2>12 DEF TablesKnow
  <2>14. HandlerKnows(r)'
    <3>1. hpc'[r] = "mark" BY <2>1 DEF TypeOK, HandlersOK
    <3>2. \A d \in Event : d = First(hrest'[r]) => d = e BY <2>1 DEF At
    <3> QED BY <1>k, <2>1, <2>7, <2>8, <3>1, <3>2 DEF HandlerKnows
  <2> QED BY <2>10, <2>13, <2>14
<1>11. CASE WeighmentKnown(r, e)
  <2>1. /\ At(r, e, "weigh") /\ ingested[e] = "PROCESSED" /\ UNCHANGED tableVars
        /\ UNCHANGED <<hrest, hacks, htx>> /\ hpc' = [hpc EXCEPT ![r] = "mark"]
    BY <1>11 DEF WeighmentKnown, Goto
  <2>2. Stays /\ TablesKnow' BY <1>k, <2>1, QuietTables
  <2>3. Applied(e) BY <1>k, <2>1 DEF TablesKnow
  <2>4. hpc'[r] = "mark" BY <2>1 DEF TypeOK, HandlersOK
  <2>5. \A d \in Event : d = First(hrest'[r]) => d = e BY <2>1 DEF At
  <2>6. HandlerKnows(r)' BY <1>k, <2>1, <2>2, <2>3, <2>4, <2>5 DEF HandlerKnows, Stays
  <2> QED BY <2>2, <2>6
<1>12. CASE CheckWeighment(r, e)
  <2>1. /\ At(r, e, "weigh") /\ mapTo[VisitOf[e]] # None /\ UNCHANGED tableVars
        /\ UNCHANGED <<hrest, hacks>> /\ hpc' = [hpc EXCEPT ![r] = "record"]
        /\ htx' = [htx EXCEPT ![r] = mapTo[VisitOf[e]]]
    BY <1>12 DEF CheckWeighment, CanRecord, Goto
  <2>2. Stays /\ TablesKnow' BY <1>k, <2>1, QuietTables
  <2>3. /\ hpc'[r] = "record" /\ htx'[r] # None
        /\ cstatus'[htx'[r]] # "FREE" /\ cvisit'[htx'[r]] = VisitOf[e]
    BY <1>k, <1>v, <2>1 DEF TablesKnow, TypeOK, HandlersOK, tableVars
  <2>4. \A d \in Event : d = First(hrest'[r]) => d = e BY <2>1 DEF At
  <2>5. KindOf[e] \in {"GROSS", "TARE"} BY <1>k, <2>1 DEF HandlerKnows, At
  <2>6. HandlerKnows(r)' BY <1>k, <2>1, <2>2, <2>3, <2>4, <2>5 DEF HandlerKnows, Stays
  <2> QED BY <2>2, <2>6
<1> QED
  BY <1>1, <1>2, <1>3, <1>4, <1>5, <1>6, <1>7, <1>8, <1>9, <1>10, <1>11, <1>12 DEF Handle, Breaks
\* A step of a tick keeps the invariant: only a successful acknowledgement
\* makes an event SYNCED, and acknowledgements come from a handler's results.
LEMMA TickKeepsKnown ==
    ASSUME TypeOK, Known, Loop \/ LoseReply \/ AckWriteFails \/ AbandonTick
    PROVE  Known'
<1> USE BoundAssumption
<1>1. UNCHANGED tableVars
  BY DEF Loop, StartTick, MarkSyncing, SendBatch, ReceiveReply, BackendGone, LoseReply, RequestFails,
         Ack, AckSuccess, AckDependencyPending, AckConflict, AckRejected, AckNext, FailNext,
         FinishTick, AckWriteFails, AbandonTick
<1>2. Stays /\ TablesKnow' BY <1>1, QuietTables DEF Known
<1>3. None \notin SuccessfulAck BY DEF SuccessfulAck, AckStatus
<1>4. ASSUME UNCHANGED handlerVars PROVE \A r \in Request : HandlerKnows(r)'
  BY <1>2, <1>4, QuietHandler DEF Known, handlerVars
<1> SUFFICES LoopKnows' /\ (\A r \in Request : HandlerKnows(r)') BY <1>2 DEF Known
<1>5. CASE \E r \in Request : SendBatch(r)
  <2>1. PICK q \in Request : SendBatch(q) BY <1>5
  <2>2. LoopKnows' BY <1>2, <2>1, QuietLoop DEF Known, SendBatch, queueVars
  <2>3. ASSUME NEW r \in Request, r # q PROVE HandlerKnows(r)'
    <3>1. hpc'[r] = hpc[r] /\ hrest'[r] = hrest[r] /\ hacks'[r] = hacks[r] /\ htx'[r] = htx[r]
      BY <2>1, <2>3 DEF SendBatch, TypeOK, HandlersOK
    <3> QED BY <1>2, <3>1, QuietHandler DEF Known
  <2>4. hpc'[q] = "next" /\ \A e \in Event : hacks'[q][e] = None
    BY <2>1 DEF SendBatch, TypeOK, HandlersOK, NoAcks
  <2>5. HandlerKnows(q)' BY <1>3, <2>4, RestingHandler
  <2> QED BY <2>2, <2>3, <2>5
<1>6. CASE ReceiveReply
  <2>1. PICK q \in Request : q = current /\ acks' = hacks[q] /\ status' = status
    BY <1>6 DEF ReceiveReply, TypeOK, LoopOK, queueVars
  <2>2. LoopKnows' BY <1>2, <2>1 DEF Known, LoopKnows, HandlerKnows, Stays
  <2>3. ASSUME NEW r \in Request, r # q PROVE HandlerKnows(r)'
    <3>1. hpc'[r] = hpc[r] /\ hrest'[r] = hrest[r] /\ hacks'[r] = hacks[r] /\ htx'[r] = htx[r]
      BY <1>6, <2>1, <2>3 DEF ReceiveReply, TypeOK, HandlersOK
    <3> QED BY <1>2, <3>1, QuietHandler DEF Known
  <2>4. hpc'[q] = "idle" /\ \A e \in Event : hacks'[q][e] = None
    BY <1>6, <2>1 DEF ReceiveReply, TypeOK, HandlersOK, NoAcks
  <2>5. HandlerKnows(q)' BY <1>3, <2>4, RestingHandler
  <2> QED BY <2>2, <2>3, <2>5
<1>7. CASE \E e \in Event : Ack(e)
  <2>1. PICK e \in Event : Ack(e) BY <1>7
  <2>2. UNCHANGED <<acks, handlerVars>>
    BY <2>1 DEF Ack, AckSuccess, AckDependencyPending, AckConflict, AckRejected, AckNext
  <2>3. \A d \in Event : status'[d] = "SYNCED" =>
           status[d] = "SYNCED" \/ acks[d] \in SuccessfulAck
    BY <2>1 DEF Ack, AckSuccess, AckDependencyPending, AckConflict, AckRejected, FailEvent,
                TypeOK, QueueOK
  <2> QED BY <1>2, <1>4, <2>2, <2>3 DEF Known, LoopKnows, Stays
<1>8. CASE StartTick \/ MarkSyncing \/ FailNext \/ BackendGone \/ LoseReply \/ AckWriteFails
  <2>1. UNCHANGED <<acks, handlerVars>>
    BY <1>8 DEF StartTick, MarkSyncing, FailNext, BackendGone, LoseReply, RequestFails, AckWriteFails
  <2>2. \A d \in Event : status'[d] = "SYNCED" => status[d] = "SYNCED"
    BY <1>8 DEF StartTick, Recovered, MarkSyncing, FailNext, FailEvent, BackendGone, LoseReply,
                RequestFails, AckWriteFails, queueVars, TypeOK, QueueOK
  <2> QED BY <1>2, <1>4, <2>1, <2>2 DEF Known, LoopKnows, Stays
<1>9. CASE FinishTick \/ AbandonTick
  <2>1. UNCHANGED <<status, handlerVars>> /\ acks' = NoAcks
    BY <1>9 DEF FinishTick, AbandonTick, ForgetTick, queueVars
  <2> QED BY <1>2, <1>3, <1>4, <2>1 DEF Known, LoopKnows, Stays, NoAcks
<1> QED BY <1>5, <1>6, <1>7, <1>8, <1>9 DEF Loop

\* So does a step of the operator, the clock, the server or the office.
LEMMA OtherKeepsKnown ==
    ASSUME TypeOK, Known,
           \/ \E e \in Event : Enqueue(e) \/ RetryDue(e)
           \/ \E r \in Request : DropReply(r)
           \/ BackendCrash
           \/ \E c \in Central : Office(c)
    PROVE  Known'
<1> USE BoundAssumption
<1>1. None \notin SuccessfulAck BY DEF SuccessfulAck, AckStatus
<1>2. CASE \E e \in Event : Enqueue(e) \/ RetryDue(e)
  <2>1. UNCHANGED <<acks, handlerVars, tableVars>> BY <1>2 DEF Enqueue, RetryDue, loopVars
  <2>2. \A d \in Event : status'[d] = "SYNCED" => status[d] = "SYNCED"
    BY <1>2 DEF Enqueue, RetryDue, TypeOK, QueueOK
  <2>3. Stays /\ TablesKnow' BY <2>1, QuietTables DEF Known
  <2>4. \A r \in Request : HandlerKnows(r)' BY <2>1, <2>3, QuietHandler DEF Known, handlerVars
  <2> QED BY <2>1, <2>2, <2>3, <2>4 DEF Known, LoopKnows, Stays
<1>3. CASE (\E r \in Request : DropReply(r)) \/ BackendCrash
  <2>1. UNCHANGED <<queueVars, loopVars, tableVars>> BY <1>3 DEF DropReply, BackendCrash
  <2>2. Stays /\ TablesKnow' BY <2>1, QuietTables DEF Known
  <2>3. LoopKnows' BY <2>1, <2>2, QuietLoop DEF Known, queueVars, loopVars
  <2>4. ASSUME NEW r \in Request PROVE HandlerKnows(r)'
    <3>1. \/ /\ hpc'[r] = hpc[r] /\ hrest'[r] = hrest[r]
             /\ hacks'[r] = hacks[r] /\ htx'[r] = htx[r]
          \/ hpc'[r] = "idle" /\ \A e \in Event : hacks'[r][e] = None
      BY <1>3 DEF DropReply, BackendCrash, TypeOK, HandlersOK, NoAcks
    <3> QED BY <1>1, <2>2, <3>1, QuietHandler, RestingHandler DEF Known
  <2> QED BY <2>2, <2>3, <2>4 DEF Known
<1>4. CASE \E c \in Central : Office(c)
  <2>1. PICK c \in Central : Office(c) BY <1>4
  <2>2. UNCHANGED <<queueVars, loopVars, handlerVars, ingested, mapTo, completion, cvisit, cgross, ctare>>
    BY <2>1 DEF Office, OfficeIdentifies, OfficeAssignsMaterial, OfficeUnloads, OfficeRejects,
                OfficeFinalizes, OfficeMoves
  <2>3. \A b \in Central : cstatus'[b] = "FREE" <=> cstatus[b] = "FREE"
    BY <2>1 DEF Office, OfficeIdentifies, OfficeAssignsMaterial, OfficeUnloads, OfficeRejects,
                OfficeFinalizes, OfficeMoves, TypeOK, TablesOK
  <2>4. \A d : Applied(d)' <=> Applied(d) BY <2>2 DEF Applied, OwnCentral
  <2>5. Stays BY <2>2, <2>3, <2>4 DEF Stays
  <2>6. TablesKnow' BY <2>2, <2>3, <2>4 DEF Known, TablesKnow, TypeOK, TablesOK
  <2>7. LoopKnows' BY <2>2, <2>5, QuietLoop DEF Known, queueVars, loopVars
  <2>8. \A r \in Request : HandlerKnows(r)' BY <2>2, <2>5, QuietHandler DEF Known, handlerVars
  <2> QED BY <2>6, <2>7, <2>8 DEF Known
<1> QED BY <1>2, <1>3, <1>4

\* At the start nothing is known.
LEMMA InitKnown == Init => Known
<1> SUFFICES ASSUME Init PROVE Known OBVIOUS
<1> USE BoundAssumption DEF Init
<1>1. None \notin SuccessfulAck BY DEF SuccessfulAck, AckStatus
<1>2. TablesKnow BY DEF TablesKnow
<1>3. \A r \in Request : HandlerKnows(r) BY <1>1 DEF HandlerKnows, NoAcks
<1>4. LoopKnows BY <1>1 DEF LoopKnows, NoAcks
<1> QED BY <1>2, <1>3, <1>4 DEF Known

\* The invariant holds from the first state on.
LEMMA KnownCorrect == Spec => []Known
<1>1. TypeOK /\ Known /\ [Next]_vars => Known'
  <2> SUFFICES ASSUME TypeOK, Known, [Next]_vars PROVE Known' OBVIOUS
  <2>1. CASE Next
    BY <2>1, TickKeepsKnown, HandleKeepsKnown, OtherKeepsKnown DEF Next
  <2>2. CASE UNCHANGED vars
    <3>1. UNCHANGED <<tableVars, handlerVars, acks, status>> BY <2>2 DEF vars, loopVars, queueVars
    <3>2. Stays /\ TablesKnow' BY <3>1, QuietTables DEF Known
    <3>3. LoopKnows' BY <3>1, <3>2, QuietLoop DEF Known
    <3>4. \A r \in Request : HandlerKnows(r)' BY <3>1, <3>2, QuietHandler DEF Known, handlerVars
    <3> QED BY <3>2, <3>3, <3>4 DEF Known
  <2> QED BY <2>1, <2>2
<1> QED BY InitKnown, TypeCorrect, <1>1, PTL DEF Spec

\* What the gateway shows as synchronized is at the backend, for any number of
\* events, visits, requests, retries and faults.
THEOREM SyncedCorrect == Spec => []SyncedIsApplied
<1>1. Known => SyncedIsApplied BY DEF Known, LoopKnows, SyncedIsApplied
<1> QED BY KnownCorrect, <1>1, PTL

-----------------------------------------------------------------------------
(* Failures are counted once                                               *)

\* A set of ranks has a least one.
LEMMA LeastRank ==
    ASSUME NEW S \in SUBSET Nat, S # {}
    PROVE  \E n \in S : \A m \in S : n <= m
<1>1. PICK n \in S : \A m \in S : ~(<<m, n>> \in OpToRel(<, Nat))
   BY NatLessThanWellFounded, WFMin, Zenon
<1>2. \A m \in S : ~(m < n) BY <1>1, Zenon DEF OpToRel
<1> QED BY <1>2

\* First picks a member of the set it is given.
LEMMA FirstIn ==
    ASSUME NEW S \in SUBSET Event, S # {}
    PROVE  First(S) \in S
<1>1. PICK n \in {Rank[e] : e \in S} : \A m \in {Rank[e] : e \in S} : n <= m
   <2>1. {Rank[e] : e \in S} \in SUBSET Nat /\ {Rank[e] : e \in S} # {} BY EventAssumption
   <2> QED BY <2>1, LeastRank
<1>2. \E e \in S : \A d \in S : Rank[e] <= Rank[d] BY <1>1
<1> QED BY <1>2 DEF First

\* The statuses in which an event waits or is being sent.
Queued == {"PENDING", "SYNCING", "FAILED"}

\* The tick has not counted the event yet: its copy says how the row looks.
RetriesLeft(e) == retryCount[e] = snap[e]

\* The tick has failed the event.
FailedOnce(e) ==
    /\ retryCount[e] = snap[e] + 1
    /\ status[e] = IF retryCount[e] < MaxRetries THEN "FAILED" ELSE "DEAD_LETTER"

\* A tick holds copies of events that were due.  It counts each of them up at
\* most once, and until it comes to an event the row is as the copy says.
TickOK ==
    /\ \A e \in batch : snap[e] < MaxRetries /\ status[e] # "ABSENT"
    /\ \A e \in batch : RetriesLeft(e) \/ FailedOnce(e)
    /\ phase \in {"marking", "waiting"} => \A e \in batch : RetriesLeft(e) /\ status[e] \in Queued
    /\ phase = "acking" => \A e \in rest : RetriesLeft(e) /\ status[e] \in Queued

\* A given-up event stays given up.
DeadStays == \A e \in Event : status[e] = "DEAD_LETTER" => status'[e] = "DEAD_LETTER"

\* The inductive invariant behind RetriesAreCountedOnce and DeadLetterIsFinal.
Counted == TickOK /\ RetriesAreCountedOnce

\* failEvent counts an event up by one, from the copy of the tick.
LEMMA FailCounts ==
    ASSUME TypeOK, Counted, NEW e \in rest, FailEvent(e), UNCHANGED <<batch, snap>>,
           phase \in {"acking", "failing"}, phase' = phase, rest' = rest \ {e}
    PROVE  Counted'
<1> USE BoundAssumption
<1>1. e \in Event /\ e \in batch /\ rest \subseteq batch /\ batch \subseteq Event BY DEF TypeOK, LoopOK
<1>2. snap[e] \in Nat /\ snap[e] < MaxRetries BY <1>1 DEF TypeOK, LoopOK, Counted, TickOK
<1>3. /\ retryCount'[e] = snap[e] + 1
      /\ status'[e] = IF snap[e] + 1 < MaxRetries THEN "FAILED" ELSE "DEAD_LETTER"
  BY <1>1 DEF FailEvent, TypeOK, QueueOK
<1>4. \A d \in Event : d # e => retryCount'[d] = retryCount[d] /\ status'[d] = status[d]
  BY DEF FailEvent, TypeOK, QueueOK
<1>5. RetriesAreCountedOnce'
  <2>1. retryCount'[e] <= MaxRetries /\ (status'[e] = "DEAD_LETTER" <=> retryCount'[e] = MaxRetries)
    BY <1>2, <1>3
  <2> QED BY <1>4, <2>1 DEF Counted, RetriesAreCountedOnce
<1>6. FailedOnce(e)' BY <1>3 DEF FailedOnce
<1>7. TickOK'
  BY <1>1, <1>3, <1>4, <1>6 DEF Counted, TickOK, RetriesLeft, FailedOnce
<1> QED BY <1>5, <1>7 DEF Counted

\* Steps that leave the counts, the copies and the working sets alone.
LEMMA QuietCounts ==
    ASSUME Counted, UNCHANGED <<status, retryCount, batch, rest, snap, phase>>
    PROVE  Counted'
BY DEF Counted, TickOK, RetriesLeft, FailedOnce, RetriesAreCountedOnce

\* A tick that forgets its batch holds no copies any more.
LEMMA ForgetCounts ==
    ASSUME Counted, ForgetTick, UNCHANGED queueVars
    PROVE  Counted'
BY DEF Counted, TickOK, RetriesAreCountedOnce, ForgetTick, queueVars

\* A tick counts each of its events once.
LEMMA TickKeepsCounted ==
    ASSUME TypeOK, Counted, Loop \/ LoseReply \/ AckWriteFails \/ AbandonTick
    PROVE  Counted' /\ DeadStays
<1> USE BoundAssumption
<1>r. rest \subseteq batch /\ batch \subseteq Event BY DEF TypeOK, LoopOK
<1>s. (\A e \in Event : retryCount[e] \in Nat /\ snap[e] \in Nat) BY DEF TypeOK, LoopOK, QueueOK
<1>1. CASE StartTick
  <2>1. PICK B \in SUBSET Due :
            /\ batch' = B /\ rest' = B
            /\ snap' = [e \in Event |-> IF e \in B THEN retryCount[e] ELSE 0]
    BY <1>1 DEF StartTick
  <2>2. status' = Recovered /\ retryCount' = retryCount /\ phase' = "marking" BY <1>1 DEF StartTick
  <2>3. \A e \in Event : /\ status'[e] = "DEAD_LETTER" <=> status[e] = "DEAD_LETTER"
                         /\ Recovered[e] = status'[e]
    BY <2>2 DEF Recovered
  <2>4. RetriesAreCountedOnce' BY <2>2, <2>3 DEF Counted, RetriesAreCountedOnce
  <2>5. ASSUME NEW e \in B
        PROVE  e \in Event /\ snap'[e] = retryCount[e] /\ snap'[e] < MaxRetries
               /\ status'[e] \in Queued /\ status'[e] # "ABSENT"
    <3>1. e \in Event /\ Recovered[e] \in {"PENDING", "FAILED"} BY DEF Due
    <3>2. status[e] # "DEAD_LETTER" BY <2>3, <3>1
    <3>3. retryCount[e] <= MaxRetries /\ retryCount[e] # MaxRetries
      BY <3>1, <3>2 DEF Counted, RetriesAreCountedOnce
    <3>4. retryCount[e] < MaxRetries BY <1>s, <3>1, <3>3
    <3> QED BY <2>1, <2>3, <3>1, <3>4 DEF Queued
  <2>6. TickOK' BY <2>1, <2>2, <2>5 DEF TickOK, RetriesLeft
  <2> QED BY <2>3, <2>4, <2>6 DEF Counted, DeadStays
<1>2. CASE MarkSyncing
  <2> DEFINE e == First(rest)
  <2>1. /\ phase = "marking" /\ rest # {} /\ status' = [status EXCEPT ![e] = "SYNCING"]
        /\ rest' = rest \ {e}
        /\ UNCHANGED <<retryCount, phase, batch, snap>>
    BY <1>2 DEF MarkSyncing
  <2>2. e \in rest BY <1>r, <2>1, FirstIn
  <2>3. RetriesLeft(e) /\ status[e] \in Queued BY <1>r, <2>1, <2>2 DEF Counted, TickOK
  <2> HIDE DEF e
  <2>4. /\ status'[e] = "SYNCING"
        /\ \A d \in Event : d # e => status'[d] = status[d]
    BY <1>r, <2>1, <2>2 DEF TypeOK, QueueOK
  <2>5. status[e] # "DEAD_LETTER" BY <2>3 DEF Queued
  <2>6. RetriesAreCountedOnce' BY <1>r, <2>1, <2>2, <2>4, <2>5 DEF Counted, RetriesAreCountedOnce
  <2>7. \A d \in batch : RetriesLeft(d)' /\ status'[d] \in Queued
    BY <1>r, <2>1, <2>3, <2>4 DEF Counted, TickOK, RetriesLeft, Queued
  <2>8. TickOK' BY <1>r, <2>1, <2>4, <2>7 DEF Counted, TickOK, Queued
  <2> QED BY <2>4, <2>5, <2>6, <2>8 DEF Counted, DeadStays
<1>3. CASE \E r \in Request : SendBatch(r)
  <2>1. /\ phase = "marking" /\ phase' = "waiting"
        /\ UNCHANGED <<status, retryCount, batch, rest, snap>>
    BY <1>3 DEF SendBatch, queueVars
  <2> QED BY <2>1 DEF Counted, TickOK, RetriesLeft, FailedOnce, RetriesAreCountedOnce, DeadStays
<1>4. CASE ReceiveReply
  <2>1. /\ phase = "waiting" /\ phase' = "acking" /\ rest' = batch
        /\ UNCHANGED <<status, retryCount, batch, snap>>
    BY <1>4 DEF ReceiveReply, queueVars
  <2> QED BY <2>1 DEF Counted, TickOK, RetriesLeft, FailedOnce, RetriesAreCountedOnce, DeadStays
<1>5. CASE BackendGone \/ LoseReply \/ AckWriteFails
  <2>1. /\ phase' = "failing" /\ rest' = batch
        /\ UNCHANGED <<status, retryCount, batch, snap>>
    BY <1>5 DEF BackendGone, LoseReply, RequestFails, AckWriteFails, queueVars
  <2> QED BY <2>1 DEF Counted, TickOK, RetriesLeft, FailedOnce, RetriesAreCountedOnce, DeadStays
<1>6. ASSUME NEW e \in Event, Ack(e) PROVE Counted' /\ DeadStays
  <2>1. /\ phase = "acking" /\ rest # {} /\ e = First(rest) /\ rest' = rest \ {e}
        /\ UNCHANGED <<phase, batch, snap>>
    BY <1>6 DEF Ack, AckSuccess, AckDependencyPending, AckConflict, AckRejected, AckNext
  <2>2. e \in rest BY <1>r, <2>1, FirstIn
  <2>3. RetriesLeft(e) /\ status[e] \in Queued BY <2>1, <2>2 DEF Counted, TickOK
  <2>4. status[e] # "DEAD_LETTER" BY <2>3 DEF Queued
  <2>5. CASE AckSuccess(e) \/ AckDependencyPending(e) \/ AckConflict(e)
    <3>1. \E s \in {"SYNCED", "PENDING", "FAILED"} : status' = [status EXCEPT ![e] = s]
      BY <2>5 DEF AckSuccess, AckDependencyPending, AckConflict
    <3>2. /\ status'[e] \in {"SYNCED", "PENDING", "FAILED"}
          /\ \A d \in Event : d # e => status'[d] = status[d]
          /\ retryCount' = retryCount
      BY <2>5, <3>1 DEF TypeOK, QueueOK, AckSuccess, AckDependencyPending, AckConflict
    <3>3. RetriesAreCountedOnce' BY <2>4, <3>2 DEF Counted, RetriesAreCountedOnce
    <3>4. TickOK' BY <1>r, <2>1, <2>3, <3>2 DEF Counted, TickOK, RetriesLeft, FailedOnce
    <3> QED BY <2>4, <3>2, <3>3, <3>4 DEF Counted, DeadStays
  <2>6. CASE AckRejected(e)
    <3>1. FailEvent(e) BY <2>6 DEF AckRejected
    <3>2. Counted' BY <2>1, <2>2, <3>1, FailCounts
    <3> QED BY <2>4, <3>1, <3>2 DEF FailEvent, DeadStays, TypeOK, QueueOK
  <2> QED BY <1>6, <2>5, <2>6 DEF Ack
<1>7. CASE FailNext
  <2> DEFINE e == First(rest)
  <2>1. /\ phase = "failing" /\ rest # {} /\ FailEvent(e) /\ rest' = rest \ {e}
        /\ UNCHANGED <<phase, batch, snap>>
    BY <1>7 DEF FailNext
  <2>2. e \in rest BY <1>r, <2>1, FirstIn
  <2> HIDE DEF e
  <2>3. Counted' BY <2>1, <2>2, FailCounts
  <2>4. status[e] = "DEAD_LETTER" => status'[e] = "DEAD_LETTER"
    <3>1. SUFFICES ASSUME status[e] = "DEAD_LETTER" PROVE status'[e] = "DEAD_LETTER" OBVIOUS
    <3>2. retryCount[e] = MaxRetries BY <1>r, <2>2, <3>1 DEF Counted, RetriesAreCountedOnce
    <3>3. snap[e] < MaxRetries /\ (RetriesLeft(e) \/ FailedOnce(e))
      BY <1>r, <2>2 DEF Counted, TickOK
    <3>4. snap[e] + 1 = MaxRetries BY <1>r, <1>s, <2>2, <3>2, <3>3 DEF RetriesLeft, FailedOnce
    <3> QED BY <1>r, <2>1, <2>2, <3>4 DEF FailEvent, TypeOK, QueueOK
  <2> QED BY <2>1, <2>3, <2>4 DEF FailEvent, DeadStays, TypeOK, QueueOK
<1>8. CASE FinishTick \/ AbandonTick
  <2>1. ForgetTick /\ UNCHANGED queueVars BY <1>8 DEF FinishTick, AbandonTick
  <2> QED BY <2>1, ForgetCounts DEF DeadStays, queueVars
<1> QED BY <1>1, <1>2, <1>3, <1>4, <1>5, <1>6, <1>7, <1>8 DEF Loop

\* Nobody else touches the counts.
LEMMA OtherKeepsCounted ==
    ASSUME TypeOK, Counted,
           \/ \E e \in Event : Enqueue(e) \/ RetryDue(e)
           \/ \E r \in Request : DropReply(r)
           \/ \E r \in Request, e \in Event : Handle(r, e) \/ Breaks(r, e)
           \/ BackendCrash
           \/ \E c \in Central : Office(c)
    PROVE  Counted' /\ DeadStays
<1>1. ASSUME NEW e \in Event, Enqueue(e) PROVE Counted' /\ DeadStays
  <2>1. /\ status[e] = "ABSENT" /\ status' = [status EXCEPT ![e] = "PENDING"]
        /\ UNCHANGED <<retryCount, batch, rest, snap, phase>>
    BY <1>1 DEF Enqueue, loopVars
  <2>2. /\ status'[e] = "PENDING"
        /\ \A d \in Event : d # e => status'[d] = status[d]
    BY <2>1 DEF TypeOK, QueueOK
  <2>3. e \notin batch BY <2>1 DEF Counted, TickOK
  <2>4. RetriesAreCountedOnce' BY <2>1, <2>2 DEF Counted, RetriesAreCountedOnce
  <2>5. TickOK' BY <2>1, <2>2, <2>3 DEF Counted, TickOK, RetriesLeft, FailedOnce, TypeOK, LoopOK
  <2> QED BY <2>1, <2>2, <2>4, <2>5 DEF Counted, DeadStays
<1>2. CASE \/ \E e \in Event : RetryDue(e)
           \/ \E r \in Request : DropReply(r)
           \/ \E r \in Request, e \in Event : Handle(r, e) \/ Breaks(r, e)
           \/ BackendCrash
           \/ \E c \in Central : Office(c)
  <2>1. UNCHANGED <<status, retryCount, batch, rest, snap, phase>>
    BY <1>2
       DEF RetryDue, DropReply, BackendCrash, Office, OfficeIdentifies, OfficeAssignsMaterial,
           OfficeUnloads, OfficeRejects, OfficeFinalizes, OfficeMoves, queueVars, loopVars,
           Handle, PrerequisiteMissing, AlreadyProcessed, DetectConflict, Dispatch, CreateCentral,
           MapVisit, ApplyState, Finalize, FinalizeRefused, ConfirmCompletion,
           Remember, CheckWeighment, RecordWeighment, WeighmentCollides, WeighmentKnown,
           WeighmentRefused, MarkProcessed, Breaks, ProcessingFails, AuditFails
  <2> QED BY <2>1, QuietCounts DEF DeadStays
<1> QED BY <1>1, <1>2

\* Nothing is counted before the first step.
LEMMA InitCounted == Init => Counted
BY BoundAssumption DEF Init, Counted, TickOK, RetriesAreCountedOnce

\* Every step keeps the counts right.
LEMMA NextKeepsCounted == TypeOK /\ Counted /\ [Next]_vars => Counted' /\ DeadStays
<1> SUFFICES ASSUME TypeOK, Counted, [Next]_vars PROVE Counted' /\ DeadStays OBVIOUS
<1>1. CASE Next BY <1>1, TickKeepsCounted, OtherKeepsCounted DEF Next
<1>2. CASE UNCHANGED vars BY <1>2, QuietCounts DEF vars, queueVars, loopVars, DeadStays
<1> QED BY <1>1, <1>2

\* The invariant holds in every state.
LEMMA CountedCorrect == Spec => []Counted
BY InitCounted, TypeCorrect, NextKeepsCounted, PTL DEF Spec

\* An event is given up at exactly MaxRetries counted failures, for every
\* number of events, retries and faults.
THEOREM RetriesCorrect == Spec => []RetriesAreCountedOnce
<1>1. Counted => RetriesAreCountedOnce BY DEF Counted
<1> QED BY CountedCorrect, <1>1, PTL

\* No step takes an event back that was given up.
THEOREM DeadLetterCorrect == Spec => DeadLetterIsFinal
<1>1. TypeOK /\ Counted /\ [Next]_vars => [DeadStays]_vars BY NextKeepsCounted
<1> QED BY TypeCorrect, CountedCorrect, <1>1, PTL DEF Spec, DeadLetterIsFinal, DeadStays

-----------------------------------------------------------------------------
(* Nothing happens before its visit                                        *)

\* A handler that is past the dependencies of an event has seen its visit.
HandlerRooted(r) ==
    hrest[r] # {} /\ hpc[r] \notin {"idle", "next", "done", "create", "map"}
        => mapTo[VisitOf[First(hrest[r])]] # None

\* The inductive invariant behind NothingBeforeItsVisit.
Rooted == NothingBeforeItsVisit /\ \A r \in Request : HandlerRooted(r)

\* The events of a handler's step are those it works on.
LEMMA AtEvent ==
    ASSUME NEW r \in Request, NEW e \in Event, Handle(r, e) \/ Breaks(r, e)
    PROVE  /\ hrest[r] # {} /\ e = First(hrest[r])
           /\ UNCHANGED <<queueVars, loopVars>>
BY DEF At, Ready, Fresh, Handle, PrerequisiteMissing, AlreadyProcessed, DetectConflict, Dispatch,
       CreateCentral, MapVisit, ApplyState, Finalize, FinalizeRefused, ConfirmCompletion,
       Remember, CheckWeighment, RecordWeighment, WeighmentCollides, WeighmentKnown,
       WeighmentRefused, MarkProcessed, Breaks, ProcessingFails, AuditFails

\* A step of one handler leaves the memory of the others alone.
LEMMA OneHandler ==
    ASSUME TypeOK, NEW r \in Request, NEW e \in Event, Handle(r, e) \/ Breaks(r, e),
           NEW q \in Request, q # r
    PROVE  hpc'[q] = hpc[q] /\ hrest'[q] = hrest[q] /\ hacks'[q] = hacks[q] /\ htx'[q] = htx[q]
BY DEF TypeOK, HandlersOK, Push, Goto,
       Handle, PrerequisiteMissing, AlreadyProcessed, DetectConflict, Dispatch, CreateCentral,
       MapVisit, ApplyState, Finalize, FinalizeRefused, ConfirmCompletion,
       Remember, CheckWeighment, RecordWeighment, WeighmentCollides, WeighmentKnown, WeighmentRefused,
       MarkProcessed, Breaks, ProcessingFails, AuditFails

\* A visit, once its map row is written, keeps one.
LEMMA MapGrows ==
    ASSUME TypeOK, Known, NEW r \in Request, NEW e \in Event, Handle(r, e) \/ Breaks(r, e)
    PROVE  /\ \A v \in Visit : mapTo[v] # None => mapTo'[v] # None
           /\ mapTo' = mapTo \/ (MapVisit(r, e) /\ mapTo'[VisitOf[e]] # None)
<1> USE EventAssumption
<1>1. CASE MapVisit(r, e)
  <2>1. At(r, e, "map") /\ mapTo' = [mapTo EXCEPT ![VisitOf[e]] = htx[r]] BY <1>1 DEF MapVisit
  <2>2. htx[r] # None BY <2>1 DEF Known, HandlerKnows, At
  <2> QED BY <1>1, <2>1, <2>2 DEF TypeOK, TablesOK
<1>2. CASE ~MapVisit(r, e)
  <2>1. mapTo' = mapTo
    BY <1>2 DEF Handle, PrerequisiteMissing, AlreadyProcessed, DetectConflict, Dispatch, CreateCentral,
         ApplyState, Finalize, FinalizeRefused, ConfirmCompletion,
         Remember, CheckWeighment, RecordWeighment, WeighmentCollides, WeighmentKnown, WeighmentRefused,
         MarkProcessed, Breaks, ProcessingFails, AuditFails, tableVars
  <2> QED BY <2>1
<1> QED BY <1>1, <1>2

\* An event other than the first one is only worked on when the map row of
\* its visit is there.
LEMMA ReadyRooted ==
    ASSUME TypeOK, Known, NEW r \in Request, NEW e \in Event, Ready(r, e), KindOf[e] # "CREATED"
    PROVE  mapTo[VisitOf[e]] # None
<1>1. PICK d \in Event : KindOf[d] = "CREATED" /\ VisitOf[d] = VisitOf[e] BY VisitAssumption
<1>2. Processed(r, d) BY <1>1 DEF Ready, DependsOn
<1>3. Applied(d) BY <1>2 DEF Processed, Known, HandlerKnows, TablesKnow
<1> QED BY <1>1, <1>3 DEF Applied

\* A step of a handler has an effect for the event it works on, or for one
\* that reports the same of the same visit.
LEMMA NewEffects ==
    ASSUME TypeOK, Known, NEW r \in Request, NEW e \in Event, Handle(r, e) \/ Breaks(r, e),
           NEW d \in Event, Applied(d)', ~Applied(d)
    PROVE  /\ VisitOf[d] = VisitOf[e] /\ KindOf[d] = KindOf[e]
           /\ KindOf[d] \in {"GROSS", "TARE"} => d = e
           /\ hpc[r] \in {"map", "state", "record"}
<1> USE EventAssumption, BoundAssumption
<1>e. /\ VisitOf[e] \in Visit /\ VisitOf[d] \in Visit /\ KindOf[d] \in Kinds
      /\ hrest[r] # {} /\ e = First(hrest[r]) /\ HandlerKnows(r)
  BY AtEvent DEF Known
<1> DEFINE Goal == /\ VisitOf[d] = VisitOf[e] /\ KindOf[d] = KindOf[e]
                   /\ KindOf[d] \in {"GROSS", "TARE"} => d = e
                   /\ hpc[r] \in {"map", "state", "record"}
<1> SUFFICES Goal OBVIOUS
<1>1. CASE UNCHANGED <<mapTo, completion, cvisit, cgross, ctare>>
  BY <1>1 DEF Applied, OwnCentral
<1>2. ASSUME NEW c \in Central, NEW arrival \in CentralStatus, CreateCentral(r, e, c, arrival)
      PROVE  Goal
  <2>1. /\ cstatus[c] = "FREE" /\ UNCHANGED <<mapTo, completion, cgross, ctare>>
        /\ cvisit' = [cvisit EXCEPT ![c] = VisitOf[e]]
    BY <1>2 DEF CreateCentral
  <2>2. cgross[c] = None /\ ctare[c] = None BY <2>1 DEF Known, TablesKnow
  <2>3. \A b \in Central : b # c => cvisit'[b] = cvisit[b] BY <2>1 DEF TypeOK, TablesOK
  <2>4. d # None OBVIOUS
  <2> QED BY <1>e, <2>1, <2>2, <2>3, <2>4 DEF Applied, OwnCentral, Kinds
<1>3. CASE MapVisit(r, e)
  <2>1. /\ UNCHANGED <<completion, cvisit, cgross, ctare>> /\ hpc[r] = "map"
        /\ mapTo' = [mapTo EXCEPT ![VisitOf[e]] = htx[r]]
    BY <1>3 DEF MapVisit, At, centralVars
  <2>2. KindOf[e] = "CREATED" BY <1>e, <2>1 DEF HandlerKnows
  <2>3. KindOf[d] = "CREATED" /\ mapTo'[VisitOf[d]] # mapTo[VisitOf[d]]
    BY <1>e, <2>1 DEF Applied, OwnCentral, Kinds
  <2>4. VisitOf[d] = VisitOf[e] BY <1>e, <2>1, <2>3 DEF TypeOK, TablesOK
  <2> QED BY <2>1, <2>2, <2>3, <2>4
<1>4. CASE ApplyState(r, e) \/ ConfirmCompletion(r, e)
  <2>1. /\ UNCHANGED <<mapTo, cvisit, cgross, ctare>> /\ hpc[r] \in {"state", "confirm"}
        /\ \A w \in Visit : w # VisitOf[e] => completion'[w] = completion[w]
    BY <1>4, <1>e DEF ApplyState, ConfirmCompletion, centralVars, At, TypeOK, TablesOK
  <2>2. KindOf[e] = "STATE" /\ (hpc[r] = "confirm" => completion[VisitOf[e]] # "NONE")
    BY <1>e, <2>1 DEF HandlerKnows, Applied
  <2>3. KindOf[d] = "STATE" /\ completion'[VisitOf[d]] # "NONE" /\ completion[VisitOf[d]] = "NONE"
    BY <1>e, <2>1 DEF Applied, OwnCentral, Kinds
  <2>4. VisitOf[d] = VisitOf[e] BY <1>e, <2>1, <2>3
  <2> QED BY <2>1, <2>2, <2>3, <2>4
<1>5. ASSUME NEW outcome \in CentralStatus, RecordWeighment(r, e, outcome) PROVE Goal
  <2> DEFINE c == htx[r]
  <2>1. /\ hpc[r] = "record" /\ UNCHANGED <<mapTo, completion, cvisit>>
        /\ cgross' = cgross \/ cgross' = [cgross EXCEPT ![c] = e]
        /\ ctare' = ctare \/ ctare' = [ctare EXCEPT ![c] = e]
    BY <1>5 DEF RecordWeighment, At
  <2> HIDE DEF c
  <2>2. SUFFICES d = e
    <3>1. KindOf[e] \in {"GROSS", "TARE"} BY <1>e, <2>1 DEF HandlerKnows
    <3> QED BY <2>1, <2>2
  <2>3. \A b \in Central :
           d # e => (cgross'[b] = d => cgross[b] = d) /\ (ctare'[b] = d => ctare[b] = d)
    BY <2>1 DEF TypeOK, TablesOK
  <2>4. CASE KindOf[d] \in {"CREATED", "STATE"} BY <2>1, <2>4 DEF Applied
  <2>5. CASE KindOf[d] = "GROSS"
    <3>1. PICK b \in OwnCentral(VisitOf[d])' : cgross'[b] = d BY <2>5 DEF Applied
    <3> QED BY <2>1, <2>3, <2>5, <3>1 DEF Applied, OwnCentral
  <2>6. CASE KindOf[d] = "TARE"
    <3>1. PICK b \in OwnCentral(VisitOf[d])' : ctare'[b] = d BY <2>6 DEF Applied
    <3> QED BY <2>1, <2>3, <2>6, <3>1 DEF Applied, OwnCentral
  <2> QED BY <1>e, <2>4, <2>5, <2>6 DEF Kinds
<1>6. \/ UNCHANGED <<mapTo, completion, cvisit, cgross, ctare>>
      \/ \E c \in Central, arrival \in CentralStatus : CreateCentral(r, e, c, arrival)
      \/ MapVisit(r, e) \/ ApplyState(r, e) \/ ConfirmCompletion(r, e)
      \/ \E outcome \in CentralStatus : RecordWeighment(r, e, outcome)
  BY DEF Handle, PrerequisiteMissing, AlreadyProcessed, DetectConflict, Dispatch,
         Finalize, FinalizeRefused, Remember, CheckWeighment, WeighmentCollides, WeighmentKnown,
         WeighmentRefused, MarkProcessed, Breaks, ProcessingFails, AuditFails, tableVars, centralVars
<1> QED BY <1>1, <1>2, <1>3, <1>4, <1>5, <1>6

\* A step of a handler keeps the invariant.
LEMMA HandleKeepsRooted ==
    ASSUME TypeOK, Known, Rooted, NEW r \in Request, NEW e \in Event, Handle(r, e) \/ Breaks(r, e)
    PROVE  Rooted'
<1> USE EventAssumption
<1> DEFINE v == VisitOf[e]
<1>e. v \in Visit /\ hrest[r] # {} /\ e = First(hrest[r]) /\ KindOf[e] \in Kinds BY AtEvent
<1>m. /\ \A w \in Visit : mapTo[w] # None => mapTo'[w] # None
      /\ mapTo' = mapTo \/ (MapVisit(r, e) /\ mapTo'[v] # None)
  BY MapGrows
<1>h. hpc[r] \notin {"idle", "next", "done", "create", "map"} => mapTo[v] # None /\ mapTo'[v] # None
  BY <1>e, <1>m DEF Rooted, HandlerRooted
<1>p. MapVisit(r, e) => mapTo'[v] # None
  <2> SUFFICES ASSUME MapVisit(r, e) PROVE mapTo'[v] # None OBVIOUS
  <2>1. mapTo' = [mapTo EXCEPT ![v] = htx[r]] /\ hpc[r] = "map" BY DEF MapVisit, At
  <2>2. htx[r] # None BY <1>e, <2>1 DEF Known, HandlerKnows
  <2> QED BY <1>e, <2>1, <2>2 DEF TypeOK, TablesOK
<1>1. ASSUME NEW d \in Event, Applied(d)', ~Applied(d) PROVE mapTo'[VisitOf[d]] # None
  <2>1. VisitOf[d] = v /\ hpc[r] \in {"map", "state", "record"} BY <1>1, NewEffects
  <2>2. CASE MapVisit(r, e) BY <1>p, <2>1, <2>2
  <2>3. CASE hpc[r] # "map" BY <1>h, <2>1, <2>3
  <2>4. CASE hpc[r] = "map" /\ ~MapVisit(r, e)
    <3>1. ProcessingFails(r, e)
      BY <2>4 DEF At, Ready, Fresh, Handle, PrerequisiteMissing, AlreadyProcessed, DetectConflict,
                  Dispatch, CreateCentral, ApplyState, Finalize, FinalizeRefused, ConfirmCompletion,
                  Remember, CheckWeighment, RecordWeighment, WeighmentCollides, WeighmentKnown,
                  WeighmentRefused, MarkProcessed, Breaks, AuditFails
    <3>2. UNCHANGED tableVars BY <3>1 DEF ProcessingFails
    <3>3. Applied(d)' <=> Applied(d) BY <3>2 DEF tableVars, Applied, OwnCentral
    <3> QED BY <1>1, <3>3
  <2> QED BY <2>2, <2>3, <2>4
<1>2. ASSUME NEW d \in Event, ingested'[d] # ingested[d] PROVE mapTo'[VisitOf[d]] # None
  <2>1. CASE Dispatch(r, e)
    <3>1. d = e /\ KindOf[e] # "CREATED" /\ Ready(r, e)
      BY <1>2, <2>1 DEF Dispatch, Fresh, TypeOK, TablesOK
    <3> QED BY <1>e, <1>m, <3>1, ReadyRooted
  <2>2. CASE Remember(r, e) \/ MarkProcessed(r, e) \/ AuditFails(r, e)
    <3>1. d = e /\ hpc[r] \in {"remember", "mark"}
      BY <1>2, <2>2 DEF Remember, MarkProcessed, AuditFails, At, TypeOK, TablesOK
    <3> QED BY <1>h, <3>1
  <2>3. Dispatch(r, e) \/ Remember(r, e) \/ MarkProcessed(r, e) \/ AuditFails(r, e)
    BY <1>2
       DEF Handle, PrerequisiteMissing, AlreadyProcessed, DetectConflict, CreateCentral,
           MapVisit, ApplyState, Finalize, FinalizeRefused, ConfirmCompletion, CheckWeighment,
           RecordWeighment, WeighmentCollides, WeighmentKnown, WeighmentRefused,
           Breaks, ProcessingFails, tableVars
  <2> QED BY <2>1, <2>2, <2>3
<1>3. NothingBeforeItsVisit'
  BY <1>m, <1>1, <1>2 DEF Rooted, NothingBeforeItsVisit
<1>4. ASSUME NEW q \in Request, q # r PROVE HandlerRooted(q)'
  <2>1. hpc'[q] = hpc[q] /\ hrest'[q] = hrest[q] BY <1>4, OneHandler
  <2>2. hrest[q] # {} => VisitOf[First(hrest[q])] \in Visit
    BY FirstIn DEF TypeOK, HandlersOK
  <2> QED BY <1>m, <2>1, <2>2 DEF Rooted, HandlerRooted
<1>5. HandlerRooted(r)'
  <2>2. ASSUME hrest' = hrest, mapTo'[v] # None PROVE HandlerRooted(r)'
    BY <1>e, <2>2 DEF HandlerRooted
  <2>3. CASE Dispatch(r, e)
    <3>1. Ready(r, e) /\ UNCHANGED <<mapTo, hrest>> BY <2>3 DEF Dispatch, Fresh
    <3>2. CASE mapTo[v] # None BY <2>2, <3>1, <3>2
    <3>3. CASE mapTo[v] = None
      <4>1. KindOf[e] = "CREATED" BY <3>1, <3>3, ReadyRooted
      <4>2. hpc'[r] = "create" BY <2>3, <3>3, <4>1 DEF Dispatch, Goto, TypeOK, HandlersOK
      <4> QED BY <4>2 DEF HandlerRooted
    <3> QED BY <3>2, <3>3
  <2>4. CASE MapVisit(r, e) BY <1>p, <2>2, <2>4 DEF MapVisit
  <2>5. CASE hrest' = hrest /\ hpc[r] \in {"state", "finalize", "confirm", "weigh", "record"}
    BY <1>h, <2>2, <2>5
  <2>6. CASE hpc'[r] \in {"next", "done", "map"} BY <2>6 DEF HandlerRooted
  <2>7. \/ Dispatch(r, e) \/ MapVisit(r, e)
        \/ hrest' = hrest /\ hpc[r] \in {"state", "finalize", "confirm", "weigh", "record"}
        \/ hpc'[r] \in {"next", "done", "map"}
    BY DEF At, Push, Goto, Handle, PrerequisiteMissing, AlreadyProcessed, DetectConflict,
           CreateCentral, ApplyState, Finalize, FinalizeRefused, ConfirmCompletion,
           Remember, CheckWeighment, RecordWeighment, WeighmentCollides, WeighmentKnown,
           WeighmentRefused, MarkProcessed, Breaks, ProcessingFails, AuditFails, TypeOK, HandlersOK
  <2> QED BY <2>3, <2>4, <2>5, <2>6, <2>7
<1> QED BY <1>3, <1>4, <1>5 DEF Rooted

\* Steps of the gateway and of the office write no effect, and a handler that
\* starts or stops works on no event.
LEMMA OtherKeepsRooted ==
    ASSUME TypeOK, Rooted,
           \/ Loop \/ LoseReply \/ AckWriteFails \/ AbandonTick
           \/ \E e \in Event : Enqueue(e) \/ RetryDue(e)
           \/ \E r \in Request : DropReply(r)
           \/ BackendCrash
           \/ \E c \in Central : Office(c)
           \/ UNCHANGED vars
    PROVE  Rooted'
<1>1. UNCHANGED <<ingested, mapTo, completion, cvisit, cgross, ctare>>
  BY DEF Loop, StartTick, MarkSyncing, SendBatch, ReceiveReply, BackendGone, LoseReply, RequestFails,
         Ack, AckSuccess, AckDependencyPending, AckConflict, AckRejected, AckNext, FailNext,
         FinishTick, AckWriteFails, AbandonTick, Enqueue, RetryDue, DropReply, BackendCrash,
         Office, OfficeIdentifies, OfficeAssignsMaterial, OfficeUnloads, OfficeRejects,
         OfficeFinalizes, OfficeMoves, tableVars, vars
<1>2. \A d : Applied(d)' <=> Applied(d) BY <1>1 DEF Applied, OwnCentral
<1>3. NothingBeforeItsVisit' BY <1>1, <1>2 DEF Rooted, NothingBeforeItsVisit
<1>4. ASSUME NEW r \in Request
      PROVE  hpc'[r] \in {"idle", "next"} \/ (hpc'[r] = hpc[r] /\ hrest'[r] = hrest[r])
  BY DEF Loop, StartTick, MarkSyncing, SendBatch, ReceiveReply, BackendGone, LoseReply, RequestFails,
         Ack, AckSuccess, AckDependencyPending, AckConflict, AckRejected, AckNext, FailNext,
         FinishTick, AckWriteFails, AbandonTick, Enqueue, RetryDue, DropReply, BackendCrash,
         Office, OfficeIdentifies, OfficeAssignsMaterial, OfficeUnloads, OfficeRejects,
         OfficeFinalizes, OfficeMoves, handlerVars, vars, TypeOK, HandlersOK
<1> QED BY <1>1, <1>3, <1>4 DEF Rooted, HandlerRooted

\* The tables are empty before the first step.
LEMMA InitRooted == Init => Rooted
<1> SUFFICES ASSUME Init PROVE Rooted OBVIOUS
<1>1. ASSUME NEW d \in Event PROVE ~Applied(d) /\ ingested[d] = "NONE"
  <2>1. KindOf[d] \in Kinds /\ VisitOf[d] \in Visit /\ d # None BY EventAssumption, BoundAssumption
  <2> QED BY <2>1 DEF Init, Applied, OwnCentral, Kinds
<1> QED BY <1>1 DEF Init, Rooted, NothingBeforeItsVisit, HandlerRooted

\* Every step keeps effects behind their visit.
LEMMA NextKeepsRooted == TypeOK /\ Known /\ Rooted /\ [Next]_vars => Rooted'
BY HandleKeepsRooted, OtherKeepsRooted DEF Next

\* The invariant holds in every state.
LEMMA RootedCorrect == Spec => []Rooted
BY InitRooted, TypeCorrect, KnownCorrect, NextKeepsRooted, PTL DEF Spec

\* No event has an effect, nor a row of its own, before its visit is known at
\* the backend, however batches are cut, resent or processed side by side.
THEOREM VisitFirst == Spec => []NothingBeforeItsVisit
<1>1. Rooted => NothingBeforeItsVisit BY DEF Rooted
<1> QED BY RootedCorrect, <1>1, PTL

-----------------------------------------------------------------------------
(* A confirmed completion is true                                          *)

\* The statuses before the first and after the second weighment.
Early == {"FREE", "ARRIVED", "IDENTIFIED", "MATERIAL_CLASSIFIED"}
Weighed == {"SECOND_WEIGHMENT", "EXCEPTION", "COMPLETED"}

\* The status of a central transaction says which weighments it has.
StatusFits ==
    \A c \in Central :
        /\ cgross[c] = None <=> cstatus[c] \in Early
        /\ ctare[c] # None <=> cstatus[c] \in Weighed

\* What a handler has read of a central transaction is still so, or the other
\* handler that changed it has written the weighment.
HandlerFits(r) ==
    hrest[r] # {} =>
        LET e == First(hrest[r]) IN
        /\ hpc[r] = "record" /\ KindOf[e] = "TARE" =>
              cstatus[htx[r]] = "UNLOADED" \/ ctare[htx[r]] # None
        /\ hpc[r] \in {"finalize", "confirm"} =>
              htx[r] # None /\ cstatus[htx[r]] # "FREE" /\ cvisit[htx[r]] = VisitOf[e]
        /\ hpc[r] = "confirm" => cstatus[htx[r]] = "COMPLETED"

\* The inductive invariant behind CentralCompletionIsTrue.
Completed == StatusFits /\ (\A r \in Request : HandlerFits(r)) /\ CentralCompletionIsTrue

\* Central transactions go forward: they keep their visit and their second
\* weighment, and a completed, rejected or exceptional one stays that.
Forward ==
    \A c \in Central :
        /\ cstatus[c] # "FREE" => cstatus'[c] # "FREE" /\ cvisit'[c] = cvisit[c]
        /\ cstatus[c] \in Blocking \cup {"COMPLETED"} => cstatus'[c] = cstatus[c]
        /\ cstatus[c] = "UNLOADED" \/ ctare[c] # None => cstatus'[c] = "UNLOADED" \/ ctare'[c] # None

\* A step that leaves the transactions alone moves none of them back.
LEMMA StillForward ==
    ASSUME UNCHANGED <<cstatus, cvisit, cgross, ctare>>
    PROVE  Forward /\ (StatusFits => StatusFits')
BY DEF Forward, StatusFits

\* A handler that does not move keeps what it has read.
LEMMA QuietFits ==
    ASSUME TypeOK, Known, Forward, NEW r \in Request, HandlerFits(r),
           hpc'[r] = hpc[r], hrest'[r] = hrest[r], htx'[r] = htx[r]
    PROVE  HandlerFits(r)'
<1> SUFFICES ASSUME hrest[r] # {}, hpc[r] \in {"record", "finalize", "confirm"} PROVE HandlerFits(r)'
  BY DEF HandlerFits
<1>1. First(hrest[r]) \in Event BY FirstIn DEF TypeOK, HandlersOK
<1>2. htx[r] # None BY <1>1 DEF Known, HandlerKnows, HandlerFits
<1>3. htx[r] \in Central BY <1>2 DEF TypeOK, HandlersOK
<1> QED BY <1>3 DEF Forward, HandlerFits

\* A confirmed completion stays true as transactions go forward.
LEMMA CompletionStays ==
    ASSUME TypeOK, Forward, CentralCompletionIsTrue, NEW v \in Visit,
           completion[v] = "CENTRAL_COMPLETED"
    PROVE  \E c \in OwnCentral(v)' : cstatus'[c] = "COMPLETED"
<1>1. PICK c \in OwnCentral(v) : cstatus[c] = "COMPLETED" BY DEF CentralCompletionIsTrue
<1>2. c \in OwnCentral(v)' /\ cstatus'[c] = "COMPLETED" BY <1>1 DEF OwnCentral, Forward
<1> QED BY <1>2

\* A step of a handler keeps the invariant, if it moves transactions forward
\* and confirms no completion but one it has seen.
LEMMA HandleKeepsCompleted ==
    ASSUME TypeOK, Known, Completed, NEW r \in Request, NEW e \in Event, Handle(r, e) \/ Breaks(r, e)
    PROVE  Completed' /\ Forward
<1> USE EventAssumption, BoundAssumption
<1>e. /\ VisitOf[e] \in Visit /\ KindOf[e] \in Kinds
      /\ hrest[r] # {} /\ e = First(hrest[r])
  BY AtEvent
<1>s. StatusFits /\ HandlerFits(r) /\ CentralCompletionIsTrue BY DEF Completed
<1>o. ASSUME Forward, StatusFits', HandlerFits(r)',
             \A v \in Visit : completion'[v] = "CENTRAL_COMPLETED" =>
                 \/ completion[v] = "CENTRAL_COMPLETED"
                 \/ \E c \in OwnCentral(v)' : cstatus'[c] = "COMPLETED"
      PROVE  Completed' /\ Forward
  <2>1. \A q \in Request : q # r => HandlerFits(q)'
    BY <1>o, OneHandler, QuietFits DEF Completed
  <2>2. CentralCompletionIsTrue' BY <1>s, <1>o, CompletionStays DEF CentralCompletionIsTrue
  <2> QED BY <1>o, <2>1, <2>2 DEF Completed
<1>p. ASSUME NEW ack, Push(r, e, ack) PROVE HandlerFits(r)'
  BY <1>p DEF Push, HandlerFits, TypeOK, HandlersOK
<1>1. CASE \/ PrerequisiteMissing(r, e) \/ DetectConflict(r, e) \/ AlreadyProcessed(r, e)
           \/ FinalizeRefused(r, e) \/ WeighmentRefused(r, e)
           \/ WeighmentCollides(r, e) \/ ProcessingFails(r, e)
           \/ Remember(r, e) \/ MarkProcessed(r, e) \/ AuditFails(r, e)
  <2>1. UNCHANGED <<completion, cstatus, cvisit, cgross, ctare>> /\ \E ack : Push(r, e, ack)
    BY <1>1 DEF PrerequisiteMissing, DetectConflict, AlreadyProcessed, FinalizeRefused,
                WeighmentRefused, WeighmentCollides, ProcessingFails, Remember, MarkProcessed,
                AuditFails, tableVars, centralVars
  <2> QED BY <1>o, <1>p, <1>s, <2>1, StillForward
<1>2. CASE Dispatch(r, e) \/ MapVisit(r, e) \/ WeighmentKnown(r, e)
  <2>1. /\ UNCHANGED <<completion, cstatus, cvisit, cgross, ctare, hrest>>
        /\ hpc'[r] \in {"create", "remember", "state", "weigh", "mark"}
    BY <1>2 DEF Dispatch, MapVisit, WeighmentKnown, Goto, tableVars, centralVars, TypeOK, HandlersOK
  <2>2. HandlerFits(r)' BY <2>1 DEF HandlerFits
  <2> QED BY <1>o, <1>s, <2>1, <2>2, StillForward
<1>3. CASE CheckWeighment(r, e)
  <2>1. /\ UNCHANGED <<completion, cstatus, cvisit, cgross, ctare, hrest>>
        /\ hpc'[r] = "record" /\ htx'[r] = mapTo[VisitOf[e]]
        /\ KindOf[e] = "TARE" => cstatus[mapTo[VisitOf[e]]] = "UNLOADED"
    BY <1>3 DEF CheckWeighment, CanRecord, CanRecordTare, Goto, tableVars, TypeOK, HandlersOK
  <2>2. HandlerFits(r)' BY <1>e, <2>1 DEF HandlerFits
  <2> QED BY <1>o, <1>s, <2>1, <2>2, StillForward
<1>4. CASE ApplyState(r, e)
  <2>1. /\ UNCHANGED <<cstatus, cvisit, cgross, ctare, hrest>>
        /\ mapTo[VisitOf[e]] # None
        /\ hpc'[r] = "remember" \/ (hpc'[r] = "finalize" /\ htx'[r] = mapTo[VisitOf[e]])
        /\ completion' = [completion EXCEPT ![VisitOf[e]] = "LOCAL_COMPLETED"]
    BY <1>4 DEF ApplyState, Goto, centralVars, TypeOK, HandlersOK
  <2>2. cstatus[mapTo[VisitOf[e]]] # "FREE" /\ cvisit[mapTo[VisitOf[e]]] = VisitOf[e]
    BY <1>e, <2>1 DEF Known, TablesKnow
  <2>3. HandlerFits(r)' BY <1>e, <2>1, <2>2 DEF HandlerFits
  <2>4. \A v \in Visit : completion'[v] = "CENTRAL_COMPLETED" => completion[v] = "CENTRAL_COMPLETED"
    BY <2>1 DEF TypeOK, TablesOK
  <2> QED BY <1>o, <1>s, <2>1, <2>3, <2>4, StillForward
<1>5. CASE ConfirmCompletion(r, e)
  <2>1. /\ UNCHANGED <<cstatus, cvisit, cgross, ctare, hrest>>
        /\ hpc[r] = "confirm" /\ hpc'[r] = "remember"
        /\ completion' = [completion EXCEPT ![VisitOf[e]] = "CENTRAL_COMPLETED"]
    BY <1>5 DEF ConfirmCompletion, At, Goto, centralVars, TypeOK, HandlersOK
  <2>2. /\ htx[r] # None /\ cvisit[htx[r]] = VisitOf[e] /\ cstatus[htx[r]] = "COMPLETED"
    BY <1>e, <1>s, <2>1 DEF HandlerFits
  <2>3. htx[r] \in OwnCentral(VisitOf[e])' /\ cstatus'[htx[r]] = "COMPLETED"
    BY <2>1, <2>2 DEF OwnCentral, TypeOK, HandlersOK
  <2>4. \A v \in Visit : v # VisitOf[e] => completion'[v] = completion[v]
    BY <2>1 DEF TypeOK, TablesOK
  <2>5. HandlerFits(r)' BY <2>1 DEF HandlerFits
  <2> QED BY <1>o, <1>s, <2>1, <2>3, <2>4, <2>5, StillForward
<1>6. ASSUME NEW c \in Central, NEW arrival \in CentralStatus, CreateCentral(r, e, c, arrival)
      PROVE  Completed' /\ Forward
  <2>1. /\ cstatus[c] = "FREE" /\ arrival \in {"ARRIVED", "IDENTIFIED"}
        /\ UNCHANGED <<completion, cgross, ctare, hrest>> /\ hpc'[r] = "map"
        /\ cstatus' = [cstatus EXCEPT ![c] = arrival]
        /\ cvisit' = [cvisit EXCEPT ![c] = VisitOf[e]]
    BY <1>6 DEF CreateCentral, Goto, TypeOK, HandlersOK
  <2>2. /\ cstatus'[c] = arrival
        /\ \A b \in Central : b # c => cstatus'[b] = cstatus[b] /\ cvisit'[b] = cvisit[b]
    BY <2>1 DEF TypeOK, TablesOK
  <2>3. cgross[c] = None /\ ctare[c] = None BY <2>1 DEF Known, TablesKnow
  <2>4. Forward BY <2>1, <2>2, <2>3 DEF Forward, Blocking
  <2>5. StatusFits' BY <1>s, <2>1, <2>2, <2>3 DEF StatusFits, Early, Weighed
  <2>6. HandlerFits(r)' BY <2>1 DEF HandlerFits
  <2> QED BY <1>o, <2>1, <2>4, <2>5, <2>6
<1>7. CASE Finalize(r, e)
  <2> DEFINE c == htx[r]
  <2>1. /\ hpc[r] = "finalize" /\ hpc'[r] = "confirm" /\ cstatus[c] = "SECOND_WEIGHMENT"
        /\ UNCHANGED <<completion, cvisit, cgross, ctare, hrest, htx>>
        /\ cstatus' = [cstatus EXCEPT ![c] = "COMPLETED"]
    BY <1>7 DEF Finalize, At, Goto, TypeOK, HandlersOK
  <2>2. c # None /\ cvisit[c] = VisitOf[e] BY <1>e, <1>s, <2>1 DEF HandlerFits
  <2>3. c \in Central BY <2>2 DEF TypeOK, HandlersOK
  <2>4. /\ cstatus'[c] = "COMPLETED"
        /\ \A b \in Central : b # c => cstatus'[b] = cstatus[b]
    BY <2>1, <2>3 DEF TypeOK, TablesOK
  <2>5. Forward
    <3>1. ctare[c] # None BY <1>s, <2>1, <2>3 DEF StatusFits, Weighed
    <3> QED BY <2>1, <2>3, <2>4, <3>1 DEF Forward, Blocking
  <2>6. StatusFits' BY <1>s, <2>1, <2>3, <2>4 DEF StatusFits, Early, Weighed
  <2>7. HandlerFits(r)' BY <1>e, <2>1, <2>2, <2>4 DEF HandlerFits
  <2> QED BY <1>o, <2>1, <2>5, <2>6, <2>7
<1>8. ASSUME NEW outcome \in CentralStatus, RecordWeighment(r, e, outcome) PROVE Completed' /\ Forward
  <2> DEFINE c == htx[r]
  <2>1. /\ hpc[r] = "record" /\ hpc'[r] = "mark"
        /\ UNCHANGED <<completion, cvisit, hrest, htx>>
        /\ cstatus' = [cstatus EXCEPT ![c] = outcome]
    BY <1>8 DEF RecordWeighment, At, Goto, TypeOK, HandlersOK
  <2>2. \/ /\ KindOf[e] = "TARE" /\ ctare[c] = None /\ outcome \in {"SECOND_WEIGHMENT", "EXCEPTION"}
           /\ ctare' = [ctare EXCEPT ![c] = e] /\ cgross' = cgross
        \/ /\ KindOf[e] # "TARE" /\ cgross[c] = None /\ outcome = "FIRST_WEIGHMENT"
           /\ cgross' = [cgross EXCEPT ![c] = e] /\ ctare' = ctare
    BY <1>8 DEF RecordWeighment
  <2>3. c # None /\ cstatus[c] # "FREE" BY <1>e, <2>1 DEF Known, HandlerKnows
  <2>4. c \in Central BY <2>3 DEF TypeOK, HandlersOK
  <2>5. /\ cstatus'[c] = outcome /\ e # None
        /\ \A b \in Central : b # c => cstatus'[b] = cstatus[b]
    BY <2>1, <2>4 DEF TypeOK, TablesOK
  <2>6. KindOf[e] = "TARE" => cstatus[c] = "UNLOADED"
    BY <1>e, <1>s, <2>1, <2>2 DEF HandlerFits
  <2>7. KindOf[e] # "TARE" => cstatus[c] \in Early
    BY <1>s, <2>2, <2>4 DEF StatusFits
  <2> HIDE DEF c
  <2>8. \/ KindOf[e] = "TARE" /\ ctare'[c] = e /\ cgross'[c] = cgross[c]
        \/ KindOf[e] # "TARE" /\ cgross'[c] = e /\ ctare'[c] = ctare[c]
    BY <2>2, <2>4 DEF TypeOK, TablesOK
  <2>9. \A b \in Central : b # c => cgross'[b] = cgross[b] /\ ctare'[b] = ctare[b]
    BY <2>2 DEF TypeOK, TablesOK
  <2>10. StatusFits'
    <3>1. /\ cgross[c] = None <=> cstatus[c] \in Early
          /\ ctare[c] # None <=> cstatus[c] \in Weighed
      BY <1>s, <2>4 DEF StatusFits
    <3>2. /\ cgross'[c] = None <=> cstatus'[c] \in Early
          /\ ctare'[c] # None <=> cstatus'[c] \in Weighed
      BY <2>2, <2>5, <2>6, <2>7, <2>8, <3>1 DEF Early, Weighed
    <3> QED BY <1>s, <2>5, <2>9, <3>2 DEF StatusFits
  <2>11. Forward
    <3>1. cstatus[c] \notin Blocking \cup {"COMPLETED"} BY <2>6, <2>7 DEF Early, Blocking
    <3>2. outcome # "FREE" BY DEF CentralStatus
    <3>3. cstatus[c] = "UNLOADED" \/ ctare[c] # None => ctare'[c] # None
      <4>1. CASE KindOf[e] = "TARE" BY <2>5, <2>8, <4>1
      <4>2. CASE KindOf[e] # "TARE"
        <5>1. cstatus[c] # "UNLOADED" BY <2>7, <4>2 DEF Early
        <5> QED BY <2>8, <4>2, <5>1
      <4> QED BY <4>1, <4>2
    <3> QED BY <2>1, <2>5, <2>9, <3>1, <3>2, <3>3 DEF Forward
  <2>12. HandlerFits(r)' BY <2>1 DEF HandlerFits
  <2> QED BY <1>o, <2>1, <2>10, <2>11, <2>12
<1> QED
  BY <1>1, <1>2, <1>3, <1>4, <1>5, <1>6, <1>7, <1>8 DEF Handle, Breaks

\* The office moves a transaction forward; nobody else touches one.
LEMMA OtherKeepsCompleted ==
    ASSUME TypeOK, Known, Completed,
           \/ Loop \/ LoseReply \/ AckWriteFails \/ AbandonTick
           \/ \E e \in Event : Enqueue(e) \/ RetryDue(e)
           \/ \E r \in Request : DropReply(r)
           \/ BackendCrash
           \/ \E c \in Central : Office(c)
           \/ UNCHANGED vars
    PROVE  Completed' /\ Forward
<1>s. StatusFits /\ CentralCompletionIsTrue BY DEF Completed
<1>1. UNCHANGED <<completion, cvisit, cgross, ctare>>
  BY DEF Loop, StartTick, MarkSyncing, SendBatch, ReceiveReply, BackendGone, LoseReply, RequestFails,
         Ack, AckSuccess, AckDependencyPending, AckConflict, AckRejected, AckNext, FailNext,
         FinishTick, AckWriteFails, AbandonTick, Enqueue, RetryDue, DropReply, BackendCrash,
         Office, OfficeIdentifies, OfficeAssignsMaterial, OfficeUnloads, OfficeRejects,
         OfficeFinalizes, OfficeMoves, tableVars, vars
<1>2. Forward /\ StatusFits'
  <2>1. CASE \E c \in Central : Office(c)
    <3>1. PICK c \in Central : Office(c) BY <2>1
    <3>2. \E to : /\ cstatus' = [cstatus EXCEPT ![c] = to]
                  /\ \/ cstatus[c] \in Early \ {"FREE"} /\ to \in Early \ {"FREE"}
                     \/ cstatus[c] = "FIRST_WEIGHMENT" /\ to \in {"UNLOADED", "REJECTED"}
                     \/ cstatus[c] = "SECOND_WEIGHMENT" /\ to = "COMPLETED"
      BY <3>1 DEF Office, OfficeIdentifies, OfficeAssignsMaterial, OfficeUnloads, OfficeRejects,
                  OfficeFinalizes, OfficeMoves, Early
    <3>3. /\ \A b \in Central : b # c => cstatus'[b] = cstatus[b]
          /\ \/ cstatus[c] \in Early \ {"FREE"} /\ cstatus'[c] \in Early \ {"FREE"}
             \/ cstatus[c] = "FIRST_WEIGHMENT" /\ cstatus'[c] \in {"UNLOADED", "REJECTED"}
             \/ cstatus[c] = "SECOND_WEIGHMENT" /\ cstatus'[c] = "COMPLETED"
      BY <3>1, <3>2 DEF TypeOK, TablesOK
    <3>4. StatusFits' BY <1>s, <1>1, <3>1, <3>3 DEF StatusFits, Early, Weighed
    <3>5. ctare[c] # None => ctare'[c] # None BY <1>1
    <3>6. Forward BY <1>1, <3>3, <3>5 DEF Forward, Early, Blocking
    <3> QED BY <3>4, <3>6
  <2>2. CASE UNCHANGED cstatus BY <1>s, <1>1, <2>2, StillForward
  <2>3. (\E c \in Central : Office(c)) \/ UNCHANGED cstatus
    BY DEF Loop, StartTick, MarkSyncing, SendBatch, ReceiveReply, BackendGone, LoseReply, RequestFails,
         Ack, AckSuccess, AckDependencyPending, AckConflict, AckRejected, AckNext, FailNext,
         FinishTick, AckWriteFails, AbandonTick, Enqueue, RetryDue, DropReply, BackendCrash,
         tableVars, vars
  <2> QED BY <2>1, <2>2, <2>3
<1>3. CentralCompletionIsTrue' BY <1>s, <1>1, <1>2, CompletionStays DEF CentralCompletionIsTrue
<1>4. ASSUME NEW r \in Request PROVE HandlerFits(r)'
  <2>1. \/ hpc'[r] \in {"idle", "next"}
        \/ hpc'[r] = hpc[r] /\ hrest'[r] = hrest[r] /\ htx'[r] = htx[r]
    BY DEF Loop, StartTick, MarkSyncing, SendBatch, ReceiveReply, BackendGone, LoseReply, RequestFails,
         Ack, AckSuccess, AckDependencyPending, AckConflict, AckRejected, AckNext, FailNext,
         FinishTick, AckWriteFails, AbandonTick, Enqueue, RetryDue, DropReply, BackendCrash,
         Office, OfficeIdentifies, OfficeAssignsMaterial, OfficeUnloads, OfficeRejects,
         OfficeFinalizes, OfficeMoves, handlerVars, vars, TypeOK, HandlersOK
  <2>2. hpc'[r] \in {"idle", "next"} => HandlerFits(r)' BY DEF HandlerFits
  <2> QED BY <1>2, <2>1, <2>2, QuietFits DEF Completed
<1> QED BY <1>2, <1>3, <1>4 DEF Completed

\* No transaction exists before the first step.
LEMMA InitCompleted == Init => Completed
BY DEF Init, Completed, StatusFits, HandlerFits, CentralCompletionIsTrue, Early, Weighed

\* Every step keeps the invariant and moves transactions forward.
LEMMA NextKeepsCompleted == TypeOK /\ Known /\ Completed /\ [Next]_vars => Completed' /\ Forward
BY HandleKeepsCompleted, OtherKeepsCompleted DEF Next

\* The invariant holds in every state.
LEMMA CompletedCorrect == Spec => []Completed
BY InitCompleted, TypeCorrect, KnownCorrect, NextKeepsCompleted, PTL DEF Spec

\* A visit that is reported as completed has a completed transaction, for any
\* number of overlapping requests.
THEOREM CompletionTrue == Spec => []CentralCompletionIsTrue
<1>1. Completed => CentralCompletionIsTrue BY DEF Completed
<1> QED BY CompletedCorrect, <1>1, PTL

-----------------------------------------------------------------------------
(* A conflict is not overwritten                                           *)

\* The upsert of EdgeLocalTransactionMap overwrites no transaction id.
MapStep == \A v \in Visit : mapTo[v] # None => mapTo'[v] = mapTo[v]

MapStays == [][MapStep]_vars

\* The map leads the visit of the event to a rejected or exceptional transaction.
Blocked(e) == mapTo[VisitOf[e]] # None /\ cstatus[mapTo[VisitOf[e]]] \in Blocking

\* A handler finalizes the transaction the map names, and reports a conflict
\* of a blocked visit only.
HandlerStands(r) ==
    /\ hrest[r] # {} /\ hpc[r] \in {"finalize", "confirm"} =>
          htx[r] = mapTo[VisitOf[First(hrest[r])]]
    /\ \A e \in Event : hacks[r][e] = "CONFLICT" => Blocked(e)

\* So do the acknowledgements and the conflict records of the gateway.
LoopStands == \A e \in Event : acks[e] = "CONFLICT" \/ e \in conflicts => Blocked(e)

\* The transaction the map names is the one that was completed.
MapCompleted ==
    \A v \in Visit : completion[v] = "CENTRAL_COMPLETED" =>
        mapTo[v] # None /\ cstatus[mapTo[v]] = "COMPLETED"

\* The inductive invariant behind ConflictIsNotOverwritten.
ConflictsStand == (\A r \in Request : HandlerStands(r)) /\ LoopStands /\ MapCompleted

\* Blocked visits stay blocked, and confirmed ones completed.
LEMMA VerdictStays ==
    ASSUME TypeOK, Forward, MapStep
    PROVE  /\ \A e \in Event : Blocked(e) => Blocked(e)'
           /\ \A v \in Visit : mapTo[v] # None /\ cstatus[mapTo[v]] = "COMPLETED" =>
                 mapTo'[v] # None /\ cstatus'[mapTo'[v]] = "COMPLETED"
BY EventAssumption DEF TypeOK, TablesOK, Forward, MapStep, Blocked

\* A step of a handler.
LEMMA HandleKeepsConflicts ==
    ASSUME TypeOK, Known, Completed, Forward, MapStep, ConflictsStand,
           NEW r \in Request, NEW e \in Event, Handle(r, e) \/ Breaks(r, e)
    PROVE  ConflictsStand'
<1> USE EventAssumption, BoundAssumption
<1>e. /\ VisitOf[e] \in Visit /\ hrest[r] # {} /\ e = First(hrest[r])
      /\ UNCHANGED <<queueVars, loopVars>>
  BY AtEvent
<1>b. \A d \in Event : Blocked(d) => Blocked(d)' BY VerdictStays
<1>m. \A v \in Visit : mapTo[v] # None => mapTo'[v] = mapTo[v] BY DEF MapStep
<1>s. HandlerStands(r) /\ MapCompleted BY DEF ConflictsStand
<1>1. LoopStands' BY <1>e, <1>b DEF ConflictsStand, LoopStands, queueVars, loopVars
<1>2. ASSUME NEW q \in Request, q # r PROVE HandlerStands(q)'
  <2>1. hpc'[q] = hpc[q] /\ hrest'[q] = hrest[q] /\ hacks'[q] = hacks[q] /\ htx'[q] = htx[q]
    BY <1>2, OneHandler
  <2>2. HandlerStands(q) BY DEF ConflictsStand
  <2>3. \A d \in Event : hacks'[q][d] = "CONFLICT" => Blocked(d)' BY <1>b, <2>1, <2>2 DEF HandlerStands
  <2>4. hrest[q] # {} /\ hpc[q] \in {"finalize", "confirm"} =>
           htx[q] = mapTo'[VisitOf[First(hrest[q])]]
    <3>1. hrest[q] # {} => First(hrest[q]) \in Event BY FirstIn DEF TypeOK, HandlersOK
    <3>2. hpc[q] \in {"finalize", "confirm"} /\ hrest[q] # {} => htx[q] # None
      BY DEF Completed, HandlerFits
    <3> QED BY <1>m, <2>2, <3>1, <3>2 DEF HandlerStands
  <2> QED BY <2>1, <2>3, <2>4 DEF HandlerStands
<1>3. HandlerStands(r)'
  <2>1. CASE ApplyState(r, e)
    <3>1. /\ hrest' = hrest /\ hacks' = hacks /\ mapTo' = mapTo
          /\ hpc'[r] = "remember" \/ (hpc'[r] = "finalize" /\ htx'[r] = mapTo[VisitOf[e]])
      BY <2>1 DEF ApplyState, Goto, TypeOK, HandlersOK
    <3> QED BY <1>e, <1>b, <1>s, <3>1 DEF HandlerStands
  <2>2. CASE Finalize(r, e)
    <3>1. /\ UNCHANGED <<hrest, hacks, htx, mapTo>> /\ hpc[r] = "finalize"
      BY <2>2 DEF Finalize, At
    <3> QED BY <1>e, <1>b, <1>s, <3>1 DEF HandlerStands
  <2>3. CASE DetectConflict(r, e)
    <3>1. Push(r, e, "CONFLICT") /\ Blocked(e) BY <2>3 DEF DetectConflict, InConflict, Blocked
    <3>2. hpc'[r] \in {"next", "done"} BY <3>1 DEF Push, TypeOK, HandlersOK
    <3>3. \A d \in Event : hacks'[r][d] = "CONFLICT" => hacks[r][d] = "CONFLICT" \/ d = e
      BY <3>1 DEF Push, TypeOK, HandlersOK
    <3> QED BY <1>b, <1>s, <3>1, <3>2, <3>3 DEF HandlerStands
  <2>4. CASE ~ApplyState(r, e) /\ ~Finalize(r, e) /\ ~DetectConflict(r, e)
    <3>1. hpc'[r] \notin {"finalize", "confirm"}
      BY <2>4 DEF Push, Goto, Handle, PrerequisiteMissing, AlreadyProcessed, Dispatch, CreateCentral,
                  MapVisit, FinalizeRefused, ConfirmCompletion, Remember, CheckWeighment,
                  RecordWeighment, WeighmentCollides, WeighmentKnown, WeighmentRefused,
                  MarkProcessed, Breaks, ProcessingFails, AuditFails, TypeOK, HandlersOK
    <3>2. hacks' = hacks \/ \E ack \in AckStatus \ {"CONFLICT"} : Push(r, e, ack)
      BY <2>4 DEF Handle, PrerequisiteMissing, AlreadyProcessed, Dispatch, CreateCentral,
                  MapVisit, FinalizeRefused, ConfirmCompletion, Remember, CheckWeighment,
                  RecordWeighment, WeighmentCollides, WeighmentKnown, WeighmentRefused,
                  MarkProcessed, Breaks, ProcessingFails, AuditFails, AckStatus
    <3>3. \A d \in Event : hacks'[r][d] = "CONFLICT" => hacks[r][d] = "CONFLICT"
      BY <3>2 DEF Push, TypeOK, HandlersOK
    <3> QED BY <1>b, <1>s, <3>1, <3>3 DEF HandlerStands
  <2> QED BY <2>1, <2>2, <2>3, <2>4
<1>4. MapCompleted'
  <2>1. CASE ConfirmCompletion(r, e)
    <3>1. /\ hpc[r] = "confirm" /\ UNCHANGED <<cstatus, mapTo>>
          /\ completion' = [completion EXCEPT ![VisitOf[e]] = "CENTRAL_COMPLETED"]
      BY <2>1 DEF ConfirmCompletion, At, centralVars
    <3>2. htx[r] = mapTo[VisitOf[e]] BY <1>e, <1>s, <3>1 DEF HandlerStands
    <3>3. htx[r] # None /\ cstatus[htx[r]] = "COMPLETED"
      BY <1>e, <3>1 DEF Completed, HandlerFits
    <3> QED BY <1>s, <3>1, <3>2, <3>3 DEF MapCompleted, TypeOK, TablesOK
  <2>2. CASE ~ConfirmCompletion(r, e)
    <3>1. \A v \in Visit : completion'[v] = "CENTRAL_COMPLETED" => completion[v] = "CENTRAL_COMPLETED"
      BY <2>2 DEF Handle, PrerequisiteMissing, AlreadyProcessed, DetectConflict, Dispatch,
                  CreateCentral, MapVisit, ApplyState, Finalize, FinalizeRefused, Remember,
                  CheckWeighment, RecordWeighment, WeighmentCollides, WeighmentKnown,
                  WeighmentRefused, MarkProcessed, Breaks, ProcessingFails, AuditFails,
                  tableVars, TypeOK, TablesOK
    <3> QED BY <1>s, <3>1, VerdictStays DEF MapCompleted
  <2> QED BY <2>1, <2>2
<1> QED BY <1>1, <1>2, <1>3, <1>4 DEF ConflictsStand

\* The other steps.
LEMMA OtherKeepsConflicts ==
    ASSUME TypeOK, Forward, MapStep, Completed, ConflictsStand,
           \/ Loop \/ LoseReply \/ AckWriteFails \/ AbandonTick
           \/ \E e \in Event : Enqueue(e) \/ RetryDue(e)
           \/ \E r \in Request : DropReply(r)
           \/ BackendCrash
           \/ \E c \in Central : Office(c)
           \/ UNCHANGED vars
    PROVE  ConflictsStand'
<1> USE EventAssumption, BoundAssumption
<1>b. \A d \in Event : Blocked(d) => Blocked(d)' BY VerdictStays
<1>1. UNCHANGED <<mapTo, completion>>
  BY DEF Loop, StartTick, MarkSyncing, SendBatch, ReceiveReply, BackendGone, LoseReply, RequestFails,
         Ack, AckSuccess, AckDependencyPending, AckConflict, AckRejected, AckNext, FailNext,
         FinishTick, AckWriteFails, AbandonTick, Enqueue, RetryDue, DropReply, BackendCrash,
         Office, OfficeIdentifies, OfficeAssignsMaterial, OfficeUnloads, OfficeRejects,
         OfficeFinalizes, OfficeMoves, tableVars, vars
<1>2. MapCompleted' BY <1>1, VerdictStays DEF ConflictsStand, MapCompleted
<1>n. None # "CONFLICT" BY DEF AckStatus
<1>3. ASSUME NEW r \in Request PROVE HandlerStands(r)'
  <2>1. \/ hpc'[r] \in {"idle", "next"} /\ (hacks'[r] = hacks[r] \/ hacks'[r] = NoAcks)
        \/ hpc'[r] = hpc[r] /\ hrest'[r] = hrest[r] /\ htx'[r] = htx[r] /\ hacks'[r] = hacks[r]
    BY DEF Loop, StartTick, MarkSyncing, SendBatch, ReceiveReply, BackendGone, LoseReply, RequestFails,
         Ack, AckSuccess, AckDependencyPending, AckConflict, AckRejected, AckNext, FailNext,
         FinishTick, AckWriteFails, AbandonTick, Enqueue, RetryDue, DropReply, BackendCrash,
         Office, OfficeIdentifies, OfficeAssignsMaterial, OfficeUnloads, OfficeRejects,
         OfficeFinalizes, OfficeMoves, handlerVars, vars, TypeOK, HandlersOK
  <2>2. \A d \in Event : hacks'[r][d] = "CONFLICT" => hacks[r][d] = "CONFLICT"
    BY <1>n, <2>1 DEF NoAcks
  <2>3. HandlerStands(r) BY DEF ConflictsStand
  <2> QED BY <1>b, <1>1, <2>1, <2>2, <2>3 DEF HandlerStands
<1>4. LoopStands'
  <2>1. \A d \in Event : acks'[d] = "CONFLICT" =>
           acks[d] = "CONFLICT" \/ \E r \in Request : hacks[r][d] = "CONFLICT"
    <3>1. acks' = acks \/ acks' = NoAcks \/ (current \in Request /\ acks' = hacks[current])
      BY DEF Loop, StartTick, MarkSyncing, SendBatch, ReceiveReply, BackendGone, LoseReply, RequestFails,
         Ack, AckSuccess, AckDependencyPending, AckConflict, AckRejected, AckNext, FailNext,
         FinishTick, AckWriteFails, AbandonTick, Enqueue, RetryDue, DropReply, BackendCrash,
         ForgetTick, Office, OfficeIdentifies, OfficeAssignsMaterial, OfficeUnloads, OfficeRejects,
         OfficeFinalizes, OfficeMoves, loopVars, vars, TypeOK, LoopOK
    <3> QED BY <1>n, <3>1 DEF NoAcks
  <2>2. \A d \in Event : d \in conflicts' => d \in conflicts \/ acks[d] = "CONFLICT"
    BY DEF Loop, StartTick, MarkSyncing, SendBatch, ReceiveReply, BackendGone, LoseReply, RequestFails,
         Ack, AckSuccess, AckDependencyPending, AckConflict, AckRejected, AckNext, FailNext,
         FinishTick, AckWriteFails, AbandonTick, Enqueue, RetryDue, DropReply, BackendCrash,
         Office, OfficeIdentifies, OfficeAssignsMaterial, OfficeUnloads, OfficeRejects,
         OfficeFinalizes, OfficeMoves, queueVars, vars
  <2>3. \A d \in Event, r \in Request : hacks[r][d] = "CONFLICT" => Blocked(d)
    BY DEF ConflictsStand, HandlerStands
  <2> QED BY <1>b, <2>1, <2>2, <2>3 DEF ConflictsStand, LoopStands
<1> QED BY <1>2, <1>3, <1>4 DEF ConflictsStand

\* There is no conflict before the first step.
LEMMA InitConflicts == Init => ConflictsStand
<1>1. None # "CONFLICT" BY BoundAssumption DEF AckStatus
<1> QED BY <1>1 DEF Init, ConflictsStand, HandlerStands, LoopStands, MapCompleted, NoAcks

\* A step that overwrites no map row keeps the invariant.
LEMMA NextKeepsConflicts ==
    TypeOK /\ Known /\ Completed /\ ConflictsStand /\ [Next]_vars /\ [MapStep]_vars => ConflictsStand'
<1> SUFFICES ASSUME TypeOK, Known, Completed, ConflictsStand, [Next]_vars, [MapStep]_vars
             PROVE  ConflictsStand'
  OBVIOUS
<1>1. Forward BY NextKeepsCompleted
<1>2. MapStep BY DEF MapStep, vars, tableVars
<1> QED BY <1>1, <1>2, HandleKeepsConflicts, OtherKeepsConflicts DEF Next

\* Unless a map row is overwritten, a conflict is never overwritten.
THEOREM ConflictStands == Spec /\ MapStays => []ConflictIsNotOverwritten
<1>1. TypeOK /\ ConflictsStand => ConflictIsNotOverwritten
  BY EventAssumption
     DEF TypeOK, QueueOK, ConflictsStand, LoopStands, MapCompleted, Blocked, Blocking, ConflictIsNotOverwritten
<1> QED
  BY InitConflicts, TypeCorrect, KnownCorrect, CompletedCorrect, NextKeepsConflicts, <1>1, PTL
     DEF Spec, MapStays

\* Only the upsert of a handler writes the map.
LEMMA MapWrites ==
    ASSUME TypeOK, Known, [Next]_vars
    PROVE  mapTo' = mapTo \/ \E r \in Request, e \in Event : MapVisit(r, e)
<1>1. CASE \E r \in Request, e \in Event : Handle(r, e) \/ Breaks(r, e) BY <1>1, MapGrows
<1>2. CASE \/ Loop \/ LoseReply \/ AckWriteFails \/ AbandonTick
           \/ \E e \in Event : Enqueue(e) \/ RetryDue(e)
           \/ \E r \in Request : DropReply(r)
           \/ BackendCrash
           \/ \E c \in Central : Office(c)
           \/ UNCHANGED vars
  BY <1>2
     DEF Loop, StartTick, MarkSyncing, SendBatch, ReceiveReply, BackendGone, LoseReply, RequestFails,
         Ack, AckSuccess, AckDependencyPending, AckConflict, AckRejected, AckNext, FailNext,
         FinishTick, AckWriteFails, AbandonTick, Enqueue, RetryDue, DropReply, BackendCrash,
         Office, OfficeIdentifies, OfficeAssignsMaterial, OfficeUnloads, OfficeRejects,
         OfficeFinalizes, OfficeMoves, tableVars, vars
<1> QED BY <1>1, <1>2 DEF Next

\* What the upsert writes is a transaction of the visit.
LEMMA MapVisitOwn ==
    ASSUME TypeOK, Known, NEW r \in Request, NEW e \in Event, MapVisit(r, e)
    PROVE  /\ htx[r] # None /\ cvisit[htx[r]] = VisitOf[e]
           /\ mapTo' = [mapTo EXCEPT ![VisitOf[e]] = htx[r]] /\ cvisit' = cvisit
BY DEF MapVisit, At, Known, HandlerKnows, centralVars

\* A visit with one central transaction keeps its map row.
LEMMA UniqueMapStep == TypeOK /\ Known /\ OneBusinessTransaction /\ [Next]_vars => [MapStep]_vars
<1> SUFFICES ASSUME TypeOK, Known, OneBusinessTransaction, [Next]_vars,
                    NEW r \in Request, NEW e \in Event, MapVisit(r, e)
             PROVE  MapStep
  BY MapWrites DEF MapStep
<1> DEFINE v == VisitOf[e]
<1>1. v \in Visit BY EventAssumption
<1>2. htx[r] \in OwnCentral(v) /\ mapTo' = [mapTo EXCEPT ![v] = htx[r]]
  BY MapVisitOwn DEF OwnCentral, TypeOK, HandlersOK
<1>3. mapTo[v] # None => mapTo[v] \in OwnCentral(v)
  BY <1>1 DEF Known, TablesKnow, OwnCentral, TypeOK, TablesOK
<1>4. mapTo[v] # None => mapTo[v] = htx[r] BY <1>1, <1>2, <1>3 DEF OneBusinessTransaction
<1> QED BY <1>1, <1>2, <1>4 DEF MapStep, TypeOK, TablesOK

\* A handler that creates a transaction has seen that its visit has none.
HandlerCreates(r) ==
    hrest[r] # {} /\ hpc[r] \in {"create", "map"} => mapTo[VisitOf[First(hrest[r])]] = None

\* The inductive invariant of an engine with one open request.
Creates == \A r \in Request : HandlerCreates(r)

\* Where one request is open at a time, what it has seen is still so.
LEMMA SingleCreates ==
    ASSUME \A q, r \in Request : q = r, TypeOK, Known, Creates, [Next]_vars
    PROVE  Creates' /\ [MapStep]_vars
<1> USE EventAssumption
<1>1. ASSUME NEW r \in Request, NEW e \in Event, Handle(r, e) \/ Breaks(r, e)
      PROVE  Creates' /\ MapStep
  <2>e. hrest[r] # {} /\ e = First(hrest[r]) /\ VisitOf[e] \in Visit BY <1>1, AtEvent
  <2>1. CASE MapVisit(r, e)
    <3>1. mapTo' = [mapTo EXCEPT ![VisitOf[e]] = htx[r]] /\ hpc[r] = "map" /\ hpc'[r] = "remember"
      BY <2>1 DEF MapVisit, At, Goto, TypeOK, HandlersOK
    <3>2. mapTo[VisitOf[e]] = None BY <2>e, <3>1 DEF Creates, HandlerCreates
    <3>3. MapStep BY <3>1, <3>2 DEF MapStep, TypeOK, TablesOK
    <3>4. HandlerCreates(r)' BY <3>1 DEF HandlerCreates
    <3> QED BY <3>3, <3>4 DEF Creates
  <2>2. CASE ~MapVisit(r, e)
    <3>1. mapTo' = mapTo BY <1>1, <2>2, MapGrows
    <3>2. HandlerCreates(r)'
      <4>1. CASE Dispatch(r, e)
        <5>1. hrest' = hrest /\ (hpc'[r] = "create" => mapTo[VisitOf[e]] = None) /\ hpc'[r] # "map"
          BY <4>1 DEF Dispatch, Goto, TypeOK, HandlersOK
        <5> QED BY <2>e, <3>1, <5>1 DEF HandlerCreates
      <4>2. ASSUME NEW c \in Central, NEW arrival \in CentralStatus, CreateCentral(r, e, c, arrival)
            PROVE  HandlerCreates(r)'
        <5>1. hrest' = hrest /\ hpc[r] = "create" BY <4>2 DEF CreateCentral, At
        <5> QED BY <3>1, <5>1 DEF Creates, HandlerCreates
      <4>3. CASE hpc'[r] \notin {"create", "map"} BY <4>3 DEF HandlerCreates
      <4>4. \/ Dispatch(r, e)
            \/ \E c \in Central, arrival \in CentralStatus : CreateCentral(r, e, c, arrival)
            \/ hpc'[r] \notin {"create", "map"}
        BY <1>1, <2>2
           DEF Push, Goto, Handle, PrerequisiteMissing, AlreadyProcessed, DetectConflict, ApplyState,
               Finalize, FinalizeRefused, ConfirmCompletion, Remember, CheckWeighment,
               RecordWeighment, WeighmentCollides, WeighmentKnown, WeighmentRefused,
               MarkProcessed, Breaks, ProcessingFails, AuditFails, TypeOK, HandlersOK
      <4> QED BY <4>1, <4>2, <4>3, <4>4
    <3> QED BY <3>1, <3>2 DEF Creates, MapStep
  <2> QED BY <2>1, <2>2
<1>2. CASE \/ Loop \/ LoseReply \/ AckWriteFails \/ AbandonTick
           \/ \E e \in Event : Enqueue(e) \/ RetryDue(e)
           \/ \E r \in Request : DropReply(r)
           \/ BackendCrash
           \/ \E c \in Central : Office(c)
           \/ UNCHANGED vars
  <2>1. mapTo' = mapTo
    BY <1>2
       DEF Loop, StartTick, MarkSyncing, SendBatch, ReceiveReply, BackendGone, LoseReply, RequestFails,
           Ack, AckSuccess, AckDependencyPending, AckConflict, AckRejected, AckNext, FailNext,
           FinishTick, AckWriteFails, AbandonTick, Enqueue, RetryDue, DropReply, BackendCrash,
           Office, OfficeIdentifies, OfficeAssignsMaterial, OfficeUnloads, OfficeRejects,
           OfficeFinalizes, OfficeMoves, tableVars, vars
  <2>2. ASSUME NEW r \in Request
        PROVE  hpc'[r] \in {"idle", "next"} \/ (hpc'[r] = hpc[r] /\ hrest'[r] = hrest[r])
    BY <1>2
       DEF Loop, StartTick, MarkSyncing, SendBatch, ReceiveReply, BackendGone, LoseReply, RequestFails,
           Ack, AckSuccess, AckDependencyPending, AckConflict, AckRejected, AckNext, FailNext,
           FinishTick, AckWriteFails, AbandonTick, Enqueue, RetryDue, DropReply, BackendCrash,
           Office, OfficeIdentifies, OfficeAssignsMaterial, OfficeUnloads, OfficeRejects,
           OfficeFinalizes, OfficeMoves, handlerVars, vars, TypeOK, HandlersOK
  <2> QED BY <2>1, <2>2 DEF Creates, HandlerCreates, MapStep
<1> QED BY <1>1, <1>2 DEF Next

\* A conflict is not overwritten where every visit has one central transaction,
\* however many requests overlap.
THEOREM ConflictStandsIfUnique == Spec /\ []OneBusinessTransaction => []ConflictIsNotOverwritten
BY TypeCorrect, KnownCorrect, UniqueMapStep, ConflictStands, PTL DEF Spec, MapStays

\* Nor where one request is open at a time, however often a visit is created.
THEOREM ConflictStandsAlone ==
    ASSUME \A q, r \in Request : q = r
    PROVE  Spec => []ConflictIsNotOverwritten
<1>1. Init => Creates BY DEF Init, Creates, HandlerCreates
<1>2. TypeOK /\ Known /\ Creates /\ [Next]_vars => Creates' /\ [MapStep]_vars BY SingleCreates
<1> QED BY TypeCorrect, KnownCorrect, <1>1, <1>2, ConflictStands, PTL DEF Spec, MapStays

-----------------------------------------------------------------------------
(* When a visit has one central transaction                                *)

\* Handler r is about to create a transaction for v, or to enter it in the map.
Making(r, v) ==
    hrest[r] # {} /\ hpc[r] \in {"create", "map"} /\ VisitOf[First(hrest[r])] = v

\* No two requests create the same visit at a time ...
OneMaker == \A q, r \in Request, v \in Visit : Making(q, v) /\ Making(r, v) => q = r

\* ... and no handler ends between the transaction and its row in the map.
MapIsReached == \A r \in Request : hpc[r] = "map" => hpc'[r] \in {"map", "remember"}

\* A visit without a map row has no transaction, but for one on its way there.
Single ==
    /\ OneBusinessTransaction
    /\ \A v \in Visit : mapTo[v] = None =>
          OwnCentral(v) = {} \/ \E r \in Request : hpc[r] = "map" /\ Making(r, v)
    /\ \A r \in Request, v \in Visit : hpc[r] = "create" /\ Making(r, v) => OwnCentral(v) = {}

\* Steps that create nothing: a handler comes to create a visit, or turns away
\* from it, only where the map allows it.
LEMMA QuietSingle ==
    ASSUME Single, OneMaker', UNCHANGED <<cvisit, mapTo>>,
           \A r \in Request : hpc[r] = "map" => hpc'[r] = "map" /\ hrest'[r] = hrest[r],
           \A r \in Request, v \in Visit : hpc'[r] = "create" /\ Making(r, v)' =>
              \/ hpc[r] = "create" /\ Making(r, v)
              \/ hpc[r] # "map" /\ mapTo[v] = None
    PROVE  Single'
<1>1. \A v : OwnCentral(v)' = OwnCentral(v) BY DEF OwnCentral
<1>2. \A r \in Request, v \in Visit : hpc[r] = "map" /\ Making(r, v) => hpc'[r] = "map" /\ Making(r, v)'
  BY DEF Making
<1>3. ASSUME NEW r \in Request, NEW v \in Visit, hpc'[r] = "create", Making(r, v)'
      PROVE  OwnCentral(v) = {}
  <2>1. CASE hpc[r] = "create" /\ Making(r, v) BY <2>1 DEF Single
  <2>2. CASE hpc[r] # "map" /\ mapTo[v] = None
    <3>1. SUFFICES ASSUME NEW q \in Request, hpc[q] = "map", Making(q, v) PROVE FALSE
      BY <2>2 DEF Single
    <3>2. hpc'[q] = "map" /\ Making(q, v)' BY <1>2, <3>1
    <3>3. q = r BY <1>3, <3>2 DEF OneMaker
    <3> QED BY <2>2, <3>1, <3>3
  <2> QED BY <1>3, <2>1, <2>2
<1> QED BY <1>1, <1>2, <1>3 DEF Single, OneBusinessTransaction

LEMMA HandleKeepsSingle ==
    ASSUME TypeOK, Known, Single, OneMaker', MapIsReached,
           NEW r \in Request, NEW e \in Event, Handle(r, e) \/ Breaks(r, e)
    PROVE  Single'
<1> DEFINE v == VisitOf[e]
<1>1. hrest[r] # {} /\ e = First(hrest[r]) /\ v \in Visit BY AtEvent, EventAssumption
<1>2. \A q \in Request \ {r} : hpc'[q] = hpc[q] /\ hrest'[q] = hrest[q] BY OneHandler
<1>3. \A q \in Request \ {r}, w \in Visit : Making(q, w)' <=> Making(q, w) BY <1>2 DEF Making
<1>4. ASSUME NEW c \in Central, NEW arrival \in CentralStatus, CreateCentral(r, e, c, arrival)
      PROVE  Single'
  <2>1. /\ hpc[r] = "create" /\ hpc'[r] = "map" /\ hrest' = hrest /\ mapTo' = mapTo
        /\ cvisit' = [cvisit EXCEPT ![c] = v]
    BY <1>4 DEF CreateCentral, At, Goto, TypeOK, HandlersOK
  <2>2. Making(r, v) /\ Making(r, v)' BY <1>1, <2>1 DEF Making
  <2>3. OwnCentral(v) = {} BY <1>1, <2>1, <2>2 DEF Single
  <2>4. OwnCentral(v)' = {c} /\ \A w \in Visit \ {v} : OwnCentral(w)' \subseteq OwnCentral(w)
    BY <2>1, <2>3 DEF OwnCentral, TypeOK, TablesOK
  <2>5. OneBusinessTransaction' BY <2>4 DEF Single, OneBusinessTransaction
  <2>6. ASSUME NEW w \in Visit, mapTo'[w] = None
        PROVE  OwnCentral(w)' = {} \/ \E q \in Request : hpc'[q] = "map" /\ Making(q, w)'
    <3>1. CASE w = v BY <2>1, <2>2, <3>1
    <3>2. CASE w # v
      <4>1. CASE OwnCentral(w) = {} BY <2>4, <3>2, <4>1
      <4>2. CASE OwnCentral(w) # {}
        <5>1. PICK q \in Request : hpc[q] = "map" /\ Making(q, w) BY <2>1, <2>6, <4>2 DEF Single
        <5>2. q # r BY <2>1, <5>1
        <5> QED BY <1>2, <1>3, <5>1, <5>2
      <4> QED BY <4>1, <4>2
    <3> QED BY <3>1, <3>2
  <2>7. ASSUME NEW q \in Request, NEW w \in Visit, hpc'[q] = "create", Making(q, w)'
        PROVE  OwnCentral(w)' = {}
    <3>1. q # r BY <2>1, <2>7
    <3>2. w # v BY <1>1, <2>2, <2>7, <3>1 DEF OneMaker
    <3>3. OwnCentral(w) = {} BY <1>2, <1>3, <2>7, <3>1 DEF Single
    <3> QED BY <2>4, <3>2, <3>3
  <2> QED BY <2>5, <2>6, <2>7 DEF Single
<1>5. CASE MapVisit(r, e)
  <2>1. /\ hpc[r] = "map" /\ hpc'[r] = "remember" /\ cvisit' = cvisit
        /\ mapTo' = [mapTo EXCEPT ![v] = htx[r]] /\ htx[r] # None
    BY <1>5, MapVisitOwn DEF MapVisit, At, Goto, TypeOK, HandlersOK
  <2>2. Making(r, v) BY <1>1, <2>1 DEF Making
  <2>3. \A w : OwnCentral(w)' = OwnCentral(w) BY <2>1 DEF OwnCentral
  <2>4. ASSUME NEW w \in Visit, mapTo'[w] = None
        PROVE  OwnCentral(w) = {} \/ \E q \in Request : hpc'[q] = "map" /\ Making(q, w)'
    <3>1. w # v /\ mapTo[w] = None BY <1>1, <2>1, <2>4 DEF TypeOK, TablesOK
    <3>2. CASE OwnCentral(w) = {} BY <3>2
    <3>3. CASE OwnCentral(w) # {}
      <4>1. PICK q \in Request : hpc[q] = "map" /\ Making(q, w) BY <3>1, <3>3 DEF Single
      <4>2. q # r BY <2>2, <3>1, <4>1 DEF Making
      <4> QED BY <1>2, <1>3, <4>1, <4>2
    <3> QED BY <3>2, <3>3
  <2>5. ASSUME NEW q \in Request, NEW w \in Visit, hpc'[q] = "create", Making(q, w)'
        PROVE  OwnCentral(w) = {}
    <3>1. q # r BY <2>1, <2>5
    <3> QED BY <1>2, <1>3, <2>5, <3>1 DEF Single
  <2> QED BY <2>3, <2>4, <2>5 DEF Single, OneBusinessTransaction
<1>6. CASE Dispatch(r, e)
  <2>1. /\ hpc[r] = "next" /\ hrest' = hrest /\ UNCHANGED <<cvisit, mapTo>>
        /\ hpc'[r] = "create" => mapTo[v] = None
    BY <1>6 DEF Dispatch, Fresh, Ready, At, Goto, TypeOK, HandlersOK, centralVars
  <2>2. \A q \in Request : hpc[q] = "map" => hpc'[q] = "map" /\ hrest'[q] = hrest[q]
    BY <1>2, <2>1
  <2>3. ASSUME NEW q \in Request, NEW w \in Visit, hpc'[q] = "create", Making(q, w)'
        PROVE  \/ hpc[q] = "create" /\ Making(q, w)
               \/ hpc[q] # "map" /\ mapTo[w] = None
    <3>1. CASE q = r
      <4>1. w = v BY <1>1, <2>1, <2>3, <3>1 DEF Making
      <4> QED BY <2>1, <2>3, <3>1, <4>1
    <3>2. CASE q # r BY <1>2, <1>3, <2>3, <3>2
    <3> QED BY <3>1, <3>2
  <2> QED BY <2>1, <2>2, <2>3, QuietSingle
<1>7. CASE /\ ~MapVisit(r, e) /\ ~Dispatch(r, e)
           /\ ~\E c \in Central, arrival \in CentralStatus : CreateCentral(r, e, c, arrival)
  <2>1. UNCHANGED <<cvisit, mapTo>> /\ hpc'[r] \notin {"create", "map"}
    BY <1>7
       DEF Handle, PrerequisiteMissing, AlreadyProcessed, DetectConflict, ApplyState, Finalize,
           FinalizeRefused, ConfirmCompletion, Remember, CheckWeighment, RecordWeighment,
           WeighmentCollides, WeighmentKnown, WeighmentRefused, MarkProcessed, Breaks,
           ProcessingFails, AuditFails, Push, Goto, TypeOK, HandlersOK, tableVars, centralVars
  <2>2. hpc'[r] = "remember" => hpc[r] # "map"
    BY <1>7
       DEF Handle, PrerequisiteMissing, AlreadyProcessed, DetectConflict, ApplyState, Finalize,
           FinalizeRefused, ConfirmCompletion, Remember, CheckWeighment, RecordWeighment,
           WeighmentCollides, WeighmentKnown, WeighmentRefused, MarkProcessed, Breaks,
           ProcessingFails, AuditFails, Push, Goto, At, TypeOK, HandlersOK
  <2>3. hpc[r] # "map" BY <2>1, <2>2 DEF MapIsReached
  <2>4. \A q \in Request : hpc[q] = "map" => hpc'[q] = "map" /\ hrest'[q] = hrest[q]
    BY <1>2, <2>3
  <2>5. \A q \in Request, w \in Visit : hpc'[q] = "create" /\ Making(q, w)' =>
           hpc[q] = "create" /\ Making(q, w)
    BY <1>2, <1>3, <2>1
  <2> QED BY <2>1, <2>4, <2>5, QuietSingle
<1> QED BY <1>4, <1>5, <1>6, <1>7

LEMMA NextKeepsSingle ==
    TypeOK /\ Known /\ Single /\ OneMaker' /\ [MapIsReached]_vars /\ [Next]_vars => Single'
<1> SUFFICES ASSUME TypeOK, Known, Single, OneMaker', [MapIsReached]_vars, [Next]_vars
             PROVE  Single'
  OBVIOUS
<1>1. MapIsReached BY DEF MapIsReached, vars, handlerVars
<1>2. CASE \/ Loop \/ LoseReply \/ AckWriteFails \/ AbandonTick
           \/ \E e \in Event : Enqueue(e) \/ RetryDue(e)
           \/ \E r \in Request : DropReply(r)
           \/ BackendCrash
           \/ \E c \in Central : Office(c)
           \/ UNCHANGED vars
  <2>1. UNCHANGED <<cvisit, mapTo>>
    BY <1>2
       DEF Loop, StartTick, MarkSyncing, SendBatch, ReceiveReply, BackendGone, LoseReply, RequestFails,
           Ack, AckSuccess, AckDependencyPending, AckConflict, AckRejected, AckNext, FailNext,
           FinishTick, AckWriteFails, AbandonTick, Enqueue, RetryDue, DropReply, BackendCrash,
           Office, OfficeIdentifies, OfficeAssignsMaterial, OfficeUnloads, OfficeRejects,
           OfficeFinalizes, OfficeMoves, tableVars, vars
  <2>2. ASSUME NEW r \in Request
        PROVE  hpc'[r] \in {"idle", "next"} \/ (hpc'[r] = hpc[r] /\ hrest'[r] = hrest[r])
    BY <1>2
       DEF Loop, StartTick, MarkSyncing, SendBatch, ReceiveReply, BackendGone, LoseReply, RequestFails,
           Ack, AckSuccess, AckDependencyPending, AckConflict, AckRejected, AckNext, FailNext,
           FinishTick, AckWriteFails, AbandonTick, Enqueue, RetryDue, DropReply, BackendCrash,
           Office, OfficeIdentifies, OfficeAssignsMaterial, OfficeUnloads, OfficeRejects,
           OfficeFinalizes, OfficeMoves, handlerVars, vars, TypeOK, HandlersOK
  <2>3. \A r \in Request : hpc[r] = "map" => hpc'[r] = "map" /\ hrest'[r] = hrest[r]
    BY <1>1, <2>2 DEF MapIsReached
  <2>4. \A r \in Request, v \in Visit : hpc'[r] = "create" /\ Making(r, v)' =>
           hpc[r] = "create" /\ Making(r, v)
    BY <2>2 DEF Making
  <2> QED BY <2>1, <2>3, <2>4, QuietSingle
<1> QED BY <1>1, <1>2, HandleKeepsSingle DEF Next

\* OneBusinessTransaction, which a run shows violated by a handler that is cut
\* short, can be violated in two ways only: by a handler that ends after it has
\* created a transaction and before the map knows it, and by two that create
\* the same visit side by side.
THEOREM OneTransactionUnlessCut ==
    Spec /\ []OneMaker /\ [][MapIsReached]_vars => []OneBusinessTransaction
<1>1. Init => Single
  BY BoundAssumption DEF Init, Single, OneBusinessTransaction, OwnCentral
<1>2. Single => OneBusinessTransaction BY DEF Single
<1> QED BY TypeCorrect, KnownCorrect, NextKeepsSingle, <1>1, <1>2, PTL DEF Spec

-----------------------------------------------------------------------------
(* The engine implements EventDelivery                                     *)

\* A handler only holds events that the gateway has queued.
HandlersHoldQueued == \A r \in Request, e \in Event : e \in hrest[r] => status[e] # "ABSENT"

\* No event goes back to absent, and handlers only take what the loop sends.
LEMMA NextKeepsHeld ==
    TypeOK /\ Counted /\ HandlersHoldQueued /\ [Next]_vars => HandlersHoldQueued'
<1> SUFFICES ASSUME TypeOK, Counted, HandlersHoldQueued, [Next]_vars PROVE HandlersHoldQueued'
  OBVIOUS
<1>1. CASE \/ \E r \in Request, e \in Event : Handle(r, e) \/ Breaks(r, e)
           \/ \E r \in Request : DropReply(r)
           \/ BackendCrash
  <2>1. status' = status /\ \A r \in Request : hrest'[r] \subseteq hrest[r]
    BY <1>1
       DEF DropReply, BackendCrash, Push, Goto, queueVars,
           Handle, PrerequisiteMissing, AlreadyProcessed, DetectConflict, Dispatch, CreateCentral,
           MapVisit, ApplyState, Finalize, FinalizeRefused, ConfirmCompletion,
           Remember, CheckWeighment, RecordWeighment, WeighmentCollides, WeighmentKnown,
           WeighmentRefused, MarkProcessed, Breaks, ProcessingFails, AuditFails, TypeOK, HandlersOK
  <2> QED BY <2>1 DEF HandlersHoldQueued
<1>2. CASE \E r \in Request : SendBatch(r)
  <2>1. /\ status' = status
        /\ \A r \in Request : hrest'[r] \subseteq hrest[r] \cup batch
    BY <1>2 DEF SendBatch, queueVars, TypeOK, HandlersOK
  <2>2. \A e \in batch : status[e] # "ABSENT" BY DEF Counted, TickOK
  <2> QED BY <2>1, <2>2 DEF HandlersHoldQueued
<1>3. CASE \/ \E e \in Event : Enqueue(e) \/ RetryDue(e)
           \/ StartTick \/ MarkSyncing \/ ReceiveReply \/ BackendGone
           \/ (\E e \in Event : Ack(e)) \/ FailNext \/ FinishTick
           \/ LoseReply \/ AckWriteFails \/ AbandonTick
           \/ \E c \in Central : Office(c)
           \/ UNCHANGED vars
  <2>1. hrest' = hrest
    BY <1>3
       DEF StartTick, MarkSyncing, ReceiveReply, BackendGone, LoseReply, RequestFails,
           Ack, AckSuccess, AckDependencyPending, AckConflict, AckRejected, AckNext, FailNext,
           FinishTick, AckWriteFails, AbandonTick, Enqueue, RetryDue,
           Office, OfficeIdentifies, OfficeAssignsMaterial, OfficeUnloads, OfficeRejects,
           OfficeFinalizes, OfficeMoves, handlerVars, vars
  <2>2. \A e \in Event : status[e] # "ABSENT" => status'[e] # "ABSENT"
    BY <1>3
       DEF StartTick, Recovered, MarkSyncing, ReceiveReply, BackendGone, LoseReply, RequestFails,
           Ack, AckSuccess, AckDependencyPending, AckConflict, AckRejected, AckNext, FailNext,
           FailEvent, FinishTick, AckWriteFails, AbandonTick, Enqueue, RetryDue,
           Office, OfficeIdentifies, OfficeAssignsMaterial, OfficeUnloads, OfficeRejects,
           OfficeFinalizes, OfficeMoves, queueVars, vars, TypeOK, QueueOK
  <2> QED BY <2>1, <2>2 DEF HandlersHoldQueued
<1> QED BY <1>1, <1>2, <1>3 DEF Next, Loop

\* Nothing is in the tables before the first step.
LEMMA InitDelivers == Init => Delivery!Init
<1> SUFFICES ASSUME Init PROVE Delivery!Init OBVIOUS
<1>1. EdgeView = [e \in Event |-> "absent"] BY DEF Init, EdgeView
<1>2. ASSUME NEW d \in Event PROVE ~Applied(d)
  <2>1. KindOf[d] \in Kinds /\ VisitOf[d] \in Visit /\ d # None BY EventAssumption, BoundAssumption
  <2> QED BY <2>1 DEF Init, Applied, OwnCentral, Kinds
<1> QED BY <1>1, <1>2 DEF Delivery!Init

\* A step that changes neither the view of the queue nor an effect.
LEMMA Stutters ==
    ASSUME EdgeView' = EdgeView, \A d \in Event : Applied(d)' <=> Applied(d)
    PROVE  UNCHANGED Delivery!vars
BY DEF Delivery!vars

\* A step that gives one event, and those that report the same, its effect.
LEMMA Applies ==
    ASSUME NEW e \in Event, EdgeView[e] # "absent", EdgeView' = EdgeView, ~Applied(e),
           \A d \in Event : Applied(d)' <=> (Applied(d) \/ d \in SameEffect(e)),
           \A d \in DependsOn(e) : Applied(d)
    PROVE  Delivery!Next
<1>1. Delivery!Apply(e) BY DEF Delivery!Apply, DependsOn, SameEffect
<1> QED BY <1>1 DEF Delivery!Next

\* A step that moves one event of the queue.
LEMMA QueueMoves ==
    ASSUME NEW e \in Event, TypeOK, UNCHANGED tableVars,
           \A d \in Event : d # e => status'[d] = status[d],
           \/ status[e] = "ABSENT" /\ status'[e] = "PENDING"
           \/ status[e] \in Queued /\ status'[e] \in Queued
           \/ status[e] \in Queued /\ status'[e] = "SYNCED" /\ Applied(e)
           \/ status[e] = "SYNCED" /\ status'[e] = "FAILED"
           \/ status[e] \in Queued \cup {"SYNCED", "DEAD_LETTER"} /\ status'[e] = "DEAD_LETTER"
    PROVE  [Delivery!Next]_(Delivery!vars)
<1>a. \A d : Applied(d)' <=> Applied(d) BY DEF tableVars, Applied, OwnCentral
<1>v. \A d \in Event : d # e => EdgeView'[d] = EdgeView[d] BY DEF EdgeView
<1>1. CASE \/ status[e] \in Queued /\ status'[e] \in Queued
           \/ status[e] = "DEAD_LETTER" /\ status'[e] = "DEAD_LETTER"
  <2>1. EdgeView'[e] = EdgeView[e] BY <1>1 DEF EdgeView, Queued
  <2>2. EdgeView' = EdgeView BY <1>v, <2>1 DEF EdgeView
  <2> QED BY <1>a, <2>2, Stutters
<1>2. ASSUME NEW from, NEW to, EdgeView[e] = from, EdgeView'[e] = to,
             \/ from = "absent" /\ to = "queued"
             \/ from = "queued" /\ to = "settled" /\ Applied(e)
             \/ from = "settled" /\ to = "queued"
             \/ from \in {"queued", "settled"} /\ to = "dead"
      PROVE  Delivery!Next
  <2>1. EdgeView' = [EdgeView EXCEPT ![e] = to]
    <3>1. DOMAIN EdgeView' = Event /\ EdgeView \in [Event -> {EdgeView[d] : d \in Event}]
      BY DEF EdgeView
    <3>2. EdgeView' \in [Event -> {EdgeView'[d] : d \in Event}] BY DEF EdgeView
    <3> QED BY <1>v, <1>2, <3>1, <3>2
  <2>2. {d \in Event : Applied(d)}' = {d \in Event : Applied(d)} BY <1>a
  <2>3. Delivery!Queue(e) \/ Delivery!Settle(e) \/ Delivery!Reopen(e) \/ Delivery!GiveUp(e)
    BY <1>2, <2>1, <2>2
       DEF Delivery!Queue, Delivery!Settle, Delivery!Reopen, Delivery!GiveUp, Delivery!Moves
  <2> QED BY <2>3 DEF Delivery!Next
<1>3. CASE status[e] = "ABSENT" /\ status'[e] = "PENDING"
  <2>1. EdgeView[e] = "absent" /\ EdgeView'[e] = "queued" BY <1>3 DEF EdgeView
  <2> QED BY <1>2, <2>1
<1>4. CASE status[e] \in Queued /\ status'[e] = "SYNCED" /\ Applied(e)
  <2>1. EdgeView[e] = "queued" /\ EdgeView'[e] = "settled" BY <1>4 DEF EdgeView, Queued
  <2> QED BY <1>2, <1>4, <2>1
<1>5. CASE status[e] = "SYNCED" /\ status'[e] = "FAILED"
  <2>1. EdgeView[e] = "settled" /\ EdgeView'[e] = "queued" BY <1>5 DEF EdgeView
  <2> QED BY <1>2, <2>1
<1>6. CASE status[e] \in Queued \cup {"SYNCED"} /\ status'[e] = "DEAD_LETTER"
  <2>1. EdgeView[e] \in {"queued", "settled"} /\ EdgeView'[e] = "dead" BY <1>6 DEF EdgeView, Queued
  <2> QED BY <1>2, <2>1
<1> QED BY <1>1, <1>3, <1>4, <1>5, <1>6

\* A step of the gateway moves one event of the queue, or none.
LEMMA QueueDelivers ==
    ASSUME TypeOK, Known, Counted,
           \/ Loop \/ LoseReply \/ AckWriteFails \/ AbandonTick
           \/ \E e \in Event : Enqueue(e) \/ RetryDue(e)
    PROVE  [Delivery!Next]_(Delivery!vars)
<1>t. UNCHANGED tableVars
  BY DEF Loop, StartTick, MarkSyncing, SendBatch, ReceiveReply, BackendGone, LoseReply, RequestFails,
         Ack, AckSuccess, AckDependencyPending, AckConflict, AckRejected, AckNext, FailNext,
         FinishTick, AckWriteFails, AbandonTick, Enqueue, RetryDue
<1>a. \A d : Applied(d)' <=> Applied(d) BY <1>t DEF tableVars, Applied, OwnCentral
<1>r. rest \subseteq batch /\ batch \subseteq Event BY DEF TypeOK, LoopOK
<1>1. CASE StartTick
  <2>1. status' = Recovered BY <1>1 DEF StartTick
  <2>2. EdgeView' = EdgeView BY <2>1 DEF Recovered, EdgeView
  <2> QED BY <1>a, <2>2, Stutters
<1>2. CASE MarkSyncing
  <2> DEFINE e == First(rest)
  <2>1. phase = "marking" /\ rest # {} /\ status' = [status EXCEPT ![e] = "SYNCING"]
    BY <1>2 DEF MarkSyncing
  <2>2. e \in rest BY <1>r, <2>1, FirstIn
  <2> HIDE DEF e
  <2>3. status[e] \in Queued BY <1>r, <2>1, <2>2 DEF Counted, TickOK
  <2>4. e \in Event /\ status'[e] \in Queued /\ \A d \in Event : d # e => status'[d] = status[d]
    BY <1>r, <2>1, <2>2 DEF TypeOK, QueueOK, Queued
  <2> QED BY <1>t, <2>3, <2>4, QueueMoves
<1>3. ASSUME NEW e \in Event, Ack(e) PROVE [Delivery!Next]_(Delivery!vars)
  <2>1. phase = "acking" /\ rest # {} /\ e = First(rest)
    BY <1>3 DEF Ack, AckSuccess, AckDependencyPending, AckConflict, AckRejected, AckNext
  <2>2. status[e] \in Queued BY <1>r, <2>1, FirstIn DEF Counted, TickOK
  <2>3. \A d \in Event : d # e => status'[d] = status[d]
    BY <1>3 DEF Ack, AckSuccess, AckDependencyPending, AckConflict, AckRejected, FailEvent,
                TypeOK, QueueOK
  <2>4. CASE AckSuccess(e)
    <3>1. Applied(e) BY <2>4 DEF AckSuccess, Known, LoopKnows
    <3>2. status'[e] = "SYNCED" BY <2>4 DEF AckSuccess, TypeOK, QueueOK
    <3> QED BY <1>t, <2>2, <2>3, <3>1, <3>2, QueueMoves
  <2>5. CASE AckDependencyPending(e) \/ AckConflict(e) \/ AckRejected(e)
    <3>1. status'[e] \in Queued \cup {"DEAD_LETTER"}
      BY <2>5 DEF AckDependencyPending, AckConflict, AckRejected, FailEvent, Queued, TypeOK, QueueOK
    <3> QED BY <1>t, <2>2, <2>3, <3>1, QueueMoves
  <2> QED BY <1>3, <2>4, <2>5 DEF Ack
<1>4. CASE FailNext
  <2> DEFINE e == First(rest)
  <2>1. rest # {} /\ FailEvent(e) BY <1>4 DEF FailNext
  <2>2. e \in rest BY <1>r, <2>1, FirstIn
  <2>3. DeadStays BY <1>4, TickKeepsCounted DEF Loop
  <2> HIDE DEF e
  <2>4. e \in Event /\ status[e] # "ABSENT" BY <1>r, <2>2 DEF Counted, TickOK
  <2>5. status[e] \in Queued \cup {"SYNCED", "DEAD_LETTER"}
    BY <2>4 DEF TypeOK, QueueOK, QueueStatus, Queued
  <2>6. status'[e] \in {"FAILED", "DEAD_LETTER"} /\ \A d \in Event : d # e => status'[d] = status[d]
    BY <2>1, <2>4 DEF FailEvent, TypeOK, QueueOK
  <2>7. status[e] = "DEAD_LETTER" => status'[e] = "DEAD_LETTER" BY <2>3, <2>4 DEF DeadStays
  <2>8. \/ status[e] \in Queued /\ status'[e] \in Queued
        \/ status[e] = "SYNCED" /\ status'[e] = "FAILED"
        \/ status[e] \in Queued \cup {"SYNCED", "DEAD_LETTER"} /\ status'[e] = "DEAD_LETTER"
    BY <2>5, <2>6, <2>7 DEF Queued
  <2> QED BY <1>t, <2>4, <2>6, <2>8, QueueMoves
<1>5. ASSUME NEW e \in Event, Enqueue(e) PROVE [Delivery!Next]_(Delivery!vars)
  <2>1. status[e] = "ABSENT" /\ status'[e] = "PENDING" /\ \A d \in Event : d # e => status'[d] = status[d]
    BY <1>5 DEF Enqueue, TypeOK, QueueOK
  <2> QED BY <1>t, <2>1, QueueMoves
<1>6. CASE status' = status
  <2>1. EdgeView' = EdgeView BY <1>6 DEF EdgeView
  <2> QED BY <1>a, <2>1, Stutters
<1>7. StartTick \/ MarkSyncing \/ (\E e \in Event : Ack(e) \/ Enqueue(e)) \/ FailNext \/ status' = status
  BY DEF Loop, SendBatch, ReceiveReply, BackendGone, LoseReply, RequestFails,
         FinishTick, AckWriteFails, AbandonTick, RetryDue, queueVars
<1> QED BY <1>1, <1>2, <1>3, <1>4, <1>5, <1>6, <1>7

\* A step of a handler gives its event its effect, or none.
LEMMA HandleDelivers ==
    ASSUME TypeOK, Known, Rooted, HandlersHoldQueued,
           NEW r \in Request, NEW e \in Event, Handle(r, e) \/ Breaks(r, e)
    PROVE  [Delivery!Next]_(Delivery!vars)
<1>e. hrest[r] # {} /\ e = First(hrest[r]) /\ UNCHANGED queueVars BY AtEvent
<1>v. EdgeView' = EdgeView BY <1>e DEF queueVars, EdgeView
<1>s. \A d \in Event : Applied(d) => Applied(d)' BY HandleKeepsKnown DEF Stays
<1>1. CASE \E d \in Event : Applied(d)' /\ ~Applied(d)
  <2>1. PICK d \in Event : Applied(d)' /\ ~Applied(d) BY <1>1
  <2>2. hpc[r] \in {"map", "state", "record"} BY <2>1, NewEffects
  <2>3. ASSUME NEW b \in Event, Applied(b)', ~Applied(b) PROVE b \in SameEffect(e)
    <3>1. /\ VisitOf[b] = VisitOf[e] /\ KindOf[b] = KindOf[e]
          /\ KindOf[b] \in {"GROSS", "TARE"} => b = e
      BY <2>3, NewEffects
    <3>2. KindOf[b] \in Kinds BY EventAssumption
    <3> QED BY <3>1, <3>2, VisitAssumption DEF SameEffect, Kinds
  <2>6. ASSUME NEW b \in SameEffect(e) PROVE b \in Event /\ Applied(b)' /\ ~Applied(b)
    <3>1. d \in SameEffect(e) BY <2>1, <2>3
    <3>2. b = d \/ (KindOf[b] = "STATE" /\ KindOf[d] = "STATE" /\ VisitOf[b] = VisitOf[d])
      BY <2>6, <3>1 DEF SameEffect
    <3>3. (Applied(b) <=> Applied(d)) /\ (Applied(b)' <=> Applied(d)') BY <3>2 DEF Applied
    <3> QED BY <2>1, <2>6, <3>3 DEF SameEffect
  <2>7. e \in SameEffect(e) BY DEF SameEffect
  <2>4. EdgeView[e] # "absent"
    <3>1. status[e] # "ABSENT" BY <1>e, FirstIn DEF HandlersHoldQueued, TypeOK, HandlersOK
    <3> QED BY <3>1 DEF EdgeView
  <2>5. ASSUME NEW b \in DependsOn(e) PROVE Applied(b)
    <3>1. b \in Event /\ KindOf[e] # "CREATED" /\ KindOf[b] = "CREATED" /\ VisitOf[b] = VisitOf[e]
      BY DEF DependsOn
    <3>2. hpc[r] # "map" BY <1>e, <3>1 DEF Known, HandlerKnows
    <3>3. mapTo[VisitOf[e]] # None BY <1>e, <2>2, <3>2 DEF Rooted, HandlerRooted
    <3> QED BY <3>1, <3>3 DEF Applied
  <2> QED BY <1>s, <1>v, <2>3, <2>4, <2>5, <2>6, <2>7, Applies
<1>2. CASE ~\E d \in Event : Applied(d)' /\ ~Applied(d)
  BY <1>2, <1>s, <1>v, Stutters
<1> QED BY <1>1, <1>2

\* Every step is a step of EventDelivery, or leaves it as it is.
LEMMA NextDelivers ==
    TypeOK /\ Known /\ Counted /\ Rooted /\ HandlersHoldQueued /\ [Next]_vars
        => [Delivery!Next]_(Delivery!vars)
<1> SUFFICES ASSUME TypeOK, Known, Counted, Rooted, HandlersHoldQueued, [Next]_vars
             PROVE  [Delivery!Next]_(Delivery!vars)
  OBVIOUS
<1>1. CASE \/ \E r \in Request : DropReply(r)
           \/ BackendCrash
           \/ \E c \in Central : Office(c)
           \/ UNCHANGED vars
  <2>1. UNCHANGED <<status, mapTo, completion, cvisit, cgross, ctare>>
    BY <1>1
       DEF DropReply, BackendCrash, Office, OfficeIdentifies, OfficeAssignsMaterial, OfficeUnloads,
           OfficeRejects, OfficeFinalizes, OfficeMoves, queueVars, tableVars, vars
  <2>2. EdgeView' = EdgeView BY <2>1 DEF EdgeView
  <2>3. \A d : Applied(d)' <=> Applied(d) BY <2>1 DEF Applied, OwnCentral
  <2> QED BY <2>2, <2>3, Stutters
<1> QED BY <1>1, QueueDelivers, HandleDelivers DEF Next

\* For every number of events, visits, requests, retries and faults the engine
\* delivers each event as EventDelivery says.
THEOREM DeliveryImplemented == Spec => ImplementsDelivery
<1>1. Init => HandlersHoldQueued BY DEF Init, HandlersHoldQueued
<1>2. TypeOK /\ Known /\ Counted /\ Rooted /\ HandlersHoldQueued /\ [Next]_vars
         => [Delivery!Next]_(Delivery!vars)
  BY NextDelivers
<1> QED
  BY InitDelivers, TypeCorrect, KnownCorrect, CountedCorrect, RootedCorrect, NextKeepsHeld, <1>1, <1>2, PTL
     DEF Spec, ImplementsDelivery, Delivery!Spec
=============================================================================
