---------------------------- MODULE EdgeGateway_proofs ----------------------------
(***************************************************************************)
(* Proofs about the parts of an edge gateway that share no state with the  *)
(* sync loop: the operator of OfflineOperator, for every number of calls   *)
(* and of visits; the files of LocalStore, for every set of mutations and  *)
(* any number of crashes.                                                  *)
(***************************************************************************)
EXTENDS OfflineOperator, LocalStore, TLAPS

-----------------------------------------------------------------------------
(* OfflineOperator                                                         *)

\* The rows of a visit, the events of the queue, and what a call keeps in
\* memory between two accesses of the store.
RowState == {"IDENTIFIED", "GROSS_CAPTURED", "TARE_CAPTURED", "LOCAL_COMPLETED", "PAUSED_APPROVAL"}
RowOf == [state : RowState, completed : BOOLEAN, gross : Int, tare : Int, net : Int,
          approvalRequired : BOOLEAN, events : Seq(Nat)]
PlainEvent == [kind : {"CREATED", "GROSS", "TARE", "STATE", "ANPR", "ANOMALY"}, visit : LocalVisit,
               dependsOn : SUBSET Nat, gross : Int, tare : Int, net : Int]
ScanEvent  == [kind : {"SCAN"}, visit : LocalVisit, dependsOn : SUBSET Nat, document : Document]
EventOf    == PlainEvent \cup ScanEvent
Queueing   == [step : {"queue"}, row : RowOf, event : PlainEvent]
Storing    == [step : {"store"}, visit : LocalVisit, row : RowOf]
Loading    == [step : {"load"}, visit : LocalVisit, id : Nat]
Scanning   == [step : {"scan"}, visit : LocalVisit, document : Document]
CallOf     == {Idle} \cup Queueing \cup Storing \cup Loading \cup Scanning

OperatorTyped ==
    /\ counter \in Nat
    /\ DOMAIN rows \subseteq LocalVisit /\ rows \in [DOMAIN rows -> RowOf]
    /\ queue \in Seq(EventOf)
    /\ calls \in [Call -> CallOf]

\* The event i is in the queue q, and it is one of visit v.
InQueue(q, i, v) == i \in DOMAIN q /\ q[i].visit = v

\* Some event of visit v in q shows what a row of it shows.
GrossQueued(q, v, w) == \E i \in DOMAIN q : q[i].kind = "GROSS" /\ q[i].visit = v /\ q[i].gross = w
TareQueued(q, v, w)  == \E i \in DOMAIN q : q[i].kind = "TARE" /\ q[i].visit = v /\ q[i].tare = w
EndQueued(q, v)      == \E i \in DOMAIN q : q[i].kind = "STATE" /\ q[i].visit = v

\* A row of visit v names its CREATED event first.
Rooted(q, r, v) == r.events # <<>> /\ InQueue(q, r.events[1], v) /\ q[r.events[1]].kind = "CREATED"

\* All a row of visit v shows is in the queue.
Backed(q, r, v) ==
    /\ \A i \in DOMAIN r.events : InQueue(q, r.events[i], v)
    /\ r.gross # NoWeight => GrossQueued(q, v, r.gross)
    /\ r.tare # NoWeight => TareQueued(q, v, r.tare)
    /\ r.completed => EndQueued(q, v)
    /\ Rooted(q, r, v)

\* It will be once the event e is in the queue.
BackedWith(q, r, e) ==
    /\ e.kind \in {"CREATED", "GROSS", "TARE", "STATE"}
    /\ \A i \in DOMAIN r.events : InQueue(q, r.events[i], e.visit)
    /\ r.gross # NoWeight => GrossQueued(q, e.visit, r.gross) \/ (e.kind = "GROSS" /\ e.gross = r.gross)
    /\ r.tare # NoWeight => TareQueued(q, e.visit, r.tare) \/ (e.kind = "TARE" /\ e.tare = r.tare)
    /\ r.completed => EndQueued(q, e.visit) \/ e.kind = "STATE"
    /\ e.kind = "CREATED" => r.events = <<>>
    /\ e.kind # "CREATED" => Rooted(q, r, e.visit) /\ r.events[1] \in e.dependsOn

\* So it is for the row a call holds.
CallBacked(q, x) ==
    /\ x.step = "queue" => BackedWith(q, x.row, x.event)
    /\ x.step = "store" => Backed(q, x.row, x.visit)
    /\ x.step = "load" => InQueue(q, x.id, x.visit)

EverythingBacked ==
    /\ \A v \in DOMAIN rows : Backed(queue, rows[v], v)
    /\ \A c \in Call : CallBacked(queue, calls[c])

\* The call x is about to announce a visit.
Announces(x) == x.step = "queue" /\ x.event.kind = "CREATED"

\* Numbers up to the counter are taken: each is that of one event in the queue
\* or of one call that is about to queue it, or was lost in a crash.
NumbersTaken ==
    /\ \A i \in DOMAIN queue : queue[i].kind = "CREATED" => queue[i].visit <= counter
    /\ \A c \in Call : Announces(calls[c]) =>
          /\ calls[c].event.visit <= counter
          /\ \A i \in DOMAIN queue : queue[i].kind = "CREATED" => queue[i].visit # calls[c].event.visit
    /\ \A c, d \in Call :
          Announces(calls[c]) /\ Announces(calls[d]) /\ calls[c].event.visit = calls[d].event.visit => c = d

\* The event i of q comes after the one that announces its visit.
FollowsVisit(q, i) ==
    q[i].kind \in {"GROSS", "TARE", "STATE"} =>
        \E j \in q[i].dependsOn : j \in DOMAIN q /\ j < i /\ q[j].kind = "CREATED" /\ q[j].visit = q[i].visit

OperatorInv ==
    /\ OperatorTyped /\ EverythingBacked
    /\ NumbersTaken /\ NumbersAreNotReused
    /\ \A i \in DOMAIN queue : FollowsVisit(queue, i)

\* A queue that has only grown.
Extends(p, q) == DOMAIN q \subseteq DOMAIN p /\ \A i \in DOMAIN q : p[i] = q[i]

-----------------------------------------------------------------------------
\* What is backed by a queue is by a longer one.
LEMMA StaysBacked ==
    ASSUME NEW p, NEW q, Extends(p, q)
    PROVE  /\ \A r, v : Backed(q, r, v) => Backed(p, r, v)
           /\ \A r, e : BackedWith(q, r, e) => BackedWith(p, r, e)
           /\ \A x : CallBacked(q, x) => CallBacked(p, x)
<1>1. \A i, v : InQueue(q, i, v) => InQueue(p, i, v) /\ p[i] = q[i] BY DEF Extends, InQueue
<1>2. \A v, w : GrossQueued(q, v, w) => GrossQueued(p, v, w) BY DEF Extends, GrossQueued
<1>3. \A v, w : TareQueued(q, v, w) => TareQueued(p, v, w) BY DEF Extends, TareQueued
<1>4. \A v : EndQueued(q, v) => EndQueued(p, v) BY DEF Extends, EndQueued
<1>5. \A r, v : Rooted(q, r, v) => Rooted(p, r, v) BY <1>1 DEF Rooted
<1>6. \A r, v : Backed(q, r, v) => Backed(p, r, v) BY <1>1, <1>2, <1>3, <1>4, <1>5 DEF Backed
<1>7. \A r, e : BackedWith(q, r, e) => BackedWith(p, r, e) BY <1>1, <1>2, <1>3, <1>4, <1>5 DEF BackedWith
<1> QED BY <1>1, <1>6, <1>7 DEF CallBacked

\* What a call keeps is told by its step.
LEMMA CallKinds ==
    ASSUME NEW x \in CallOf
    PROVE  /\ x.step = "queue" => x \in Queueing
           /\ x.step = "store" => x \in Storing
           /\ x.step = "load" => x \in Loading
           /\ x.step = "scan" => x \in Scanning
BY DEF CallOf, Idle, Queueing, Storing, Loading, Scanning

\* An event at the end of the queue: all others stay where they are.
LEMMA AppendExtends ==
    ASSUME queue \in Seq(EventOf), NEW e \in EventOf, queue' = Append(queue, e)
    PROVE  /\ queue' \in Seq(EventOf) /\ Extends(queue', queue)
           /\ Len(queue') = Len(queue) + 1 /\ Len(queue) + 1 \in DOMAIN queue' /\ queue'[Len(queue) + 1] = e
           /\ \A i \in DOMAIN queue' : i \in DOMAIN queue \/ i = Len(queue) + 1
           /\ \A i \in DOMAIN queue : i < Len(queue) + 1
BY DEF Extends

\* A step of a call c that leaves it with x.
LEMMA CallStepInv ==
    ASSUME OperatorInv, NEW c \in Call, NEW x \in CallOf, calls' = [calls EXCEPT ![c] = x],
           Extends(queue', queue), queue' \in Seq(EventOf),
           DOMAIN rows' \subseteq LocalVisit, rows' \in [DOMAIN rows' -> RowOf],
           \A v \in DOMAIN rows' : Backed(queue', rows'[v], v),
           CallBacked(queue', x),
           \/ counter' = counter /\ ~Announces(x)
           \/ counter' = counter + 1 /\ queue' = queue /\ x.event.visit = counter + 1,
           \A i \in DOMAIN queue' : i \in DOMAIN queue \/ i = Len(queue) + 1,
           \A i \in DOMAIN queue' \ DOMAIN queue :
              /\ queue'[i].kind = "CREATED" => Announces(calls[c]) /\ queue'[i].visit = calls[c].event.visit
              /\ FollowsVisit(queue', i)
    PROVE  OperatorInv'
<1> USE DEF OperatorInv
<1>1. OperatorTyped'
  <2>1. counter' \in Nat BY DEF OperatorTyped
  <2>2. calls' \in [Call -> CallOf] BY DEF OperatorTyped
  <2> QED BY <2>1, <2>2 DEF OperatorTyped
<1>2. calls'[c] = x /\ \A d \in Call \ {c} : calls'[d] = calls[d] BY DEF OperatorTyped
<1>3. EverythingBacked'
  <2>1. \A d \in Call \ {c} : CallBacked(queue', calls'[d]) BY <1>2, StaysBacked DEF EverythingBacked
  <2> QED BY <1>2, <2>1 DEF EverythingBacked
<1>4. \A i \in DOMAIN queue : queue'[i] = queue[i] BY DEF Extends
<1>5. \A i \in DOMAIN queue' : FollowsVisit(queue', i)
  <2>1. \A i \in DOMAIN queue : FollowsVisit(queue', i) BY <1>4 DEF FollowsVisit, Extends
  <2> QED BY <2>1
<1>6. counter \in Nat /\ \A i \in DOMAIN queue : queue[i].visit \in Nat
  <2>1. \A i \in DOMAIN queue : queue[i] \in EventOf BY DEF OperatorTyped
  <2> QED BY <2>1 DEF OperatorTyped, EventOf, PlainEvent, ScanEvent, LocalVisit
<1>7. \A i \in DOMAIN queue' : queue'[i].kind = "CREATED" =>
         \/ i \in DOMAIN queue /\ queue'[i] = queue[i]
         \/ i = Len(queue) + 1 /\ i \notin DOMAIN queue /\ Announces(calls[c]) /\ queue'[i].visit = calls[c].event.visit
    BY <1>4
<1>8. NumbersAreNotReused'
  <2> SUFFICES ASSUME NEW i \in DOMAIN queue', NEW j \in DOMAIN queue',
                      queue'[i].kind = "CREATED", queue'[j].kind = "CREATED",
                      queue'[i].visit = queue'[j].visit
               PROVE  i = j
      BY DEF NumbersAreNotReused, Queued
  <2>1. CASE i \in DOMAIN queue /\ j \in DOMAIN queue
    BY <1>4, <2>1 DEF NumbersAreNotReused, Queued
  <2>2. CASE i \in DOMAIN queue /\ j \notin DOMAIN queue BY <1>4, <1>7, <2>2 DEF NumbersTaken
  <2>3. CASE i \notin DOMAIN queue /\ j \in DOMAIN queue BY <1>4, <1>7, <2>3 DEF NumbersTaken
  <2>4. CASE i \notin DOMAIN queue /\ j \notin DOMAIN queue BY <1>7, <2>4
  <2> QED BY <2>1, <2>2, <2>3, <2>4
<1>9. NumbersTaken'
  <2>1. ASSUME NEW i \in DOMAIN queue', queue'[i].kind = "CREATED" PROVE queue'[i].visit <= counter
      BY <1>4, <1>7, <2>1 DEF NumbersTaken
  <2>2. counter' \in {counter, counter + 1} OBVIOUS
  <2>3. \A i \in DOMAIN queue' : queue'[i].visit \in Nat
    <3>1. \A i \in DOMAIN queue' : queue'[i] \in EventOf OBVIOUS
    <3> QED BY <3>1 DEF EventOf, PlainEvent, ScanEvent, LocalVisit
  <2>4. \A d \in Call : Announces(calls[d]) => calls[d].event.visit \in Nat
    <3>1. \A d \in Call : Announces(calls[d]) => calls[d] \in Queueing BY CallKinds DEF OperatorTyped, Announces
    <3> QED BY <3>1 DEF Queueing, PlainEvent, LocalVisit
  <2>5. ASSUME NEW d \in Call, Announces(calls'[d])
        PROVE  /\ calls'[d].event.visit <= counter'
               /\ \A i \in DOMAIN queue' : queue'[i].kind = "CREATED" => queue'[i].visit # calls'[d].event.visit
    <3>1. CASE d = c BY <1>2, <1>6, <2>1, <2>3, <2>5, <3>1 
    <3>2. CASE d # c
      <4>1. calls'[d] = calls[d] /\ calls[d].event.visit <= counter BY <1>2, <2>5, <3>2 DEF NumbersTaken
      <4>2. ASSUME NEW i \in DOMAIN queue', queue'[i].kind = "CREATED"
            PROVE  queue'[i].visit # calls[d].event.visit
          BY <1>4, <1>7, <2>5, <3>2, <4>1, <4>2 DEF NumbersTaken
      <4> QED BY <1>6, <2>2, <2>4, <2>5, <4>1, <4>2
    <3> QED BY <3>1, <3>2
  <2>6. ASSUME NEW d \in Call, NEW e \in Call, Announces(calls'[d]), Announces(calls'[e]),
               calls'[d].event.visit = calls'[e].event.visit
        PROVE  d = e
    <3>1. CASE d # c /\ e # c BY <1>2, <2>6, <3>1 DEF NumbersTaken
    <3>2. CASE d = c /\ e # c
      <4>1. calls'[e] = calls[e] /\ calls[e].event.visit <= counter BY <1>2, <2>6, <3>2 DEF NumbersTaken
      <4> QED BY <1>2, <1>6, <2>4, <2>6, <3>2, <4>1
    <3>3. CASE d # c /\ e = c
      <4>1. calls'[d] = calls[d] /\ calls[d].event.visit <= counter BY <1>2, <2>6, <3>3 DEF NumbersTaken
      <4> QED BY <1>2, <1>6, <2>4, <2>6, <3>3, <4>1
    <3> QED BY <3>1, <3>2, <3>3
  <2>7. \A i \in DOMAIN queue' : queue'[i].kind = "CREATED" => queue'[i].visit <= counter'
      BY <1>6, <2>1, <2>2, <2>3
  <2> QED BY <2>5, <2>6, <2>7 DEF NumbersTaken
<1> QED BY <1>1, <1>3, <1>5, <1>8, <1>9

\* A step of a call that leaves the store as it is.
LEMMA QuietStepInv ==
    ASSUME OperatorInv, NEW c \in Call, NEW x \in CallOf, calls' = [calls EXCEPT ![c] = x],
           UNCHANGED <<counter, rows, queue>>, CallBacked(queue, x), ~Announces(x)
    PROVE  OperatorInv'
<1>1. Extends(queue', queue) BY DEF Extends
<1>2. /\ queue' \in Seq(EventOf) /\ DOMAIN rows' \subseteq LocalVisit /\ rows' \in [DOMAIN rows' -> RowOf]
      /\ \A v \in DOMAIN rows' : Backed(queue', rows'[v], v)
    BY DEF OperatorInv, OperatorTyped, EverythingBacked
<1>3. CallBacked(queue', x) OBVIOUS
<1>4. counter' = counter /\ DOMAIN queue' = DOMAIN queue OBVIOUS
<1> QED BY <1>1, <1>2, <1>3, <1>4, CallStepInv

\* A step of a call that queues an event which follows its visit.
LEMMA QueueingStepInv ==
    ASSUME OperatorInv, NEW c \in Call, NEW x \in CallOf, calls' = [calls EXCEPT ![c] = x],
           NEW e \in EventOf, queue' = Append(queue, e), UNCHANGED <<counter, rows>>,
           CallBacked(queue', x), ~Announces(x),
           e.kind = "CREATED" => Announces(calls[c]) /\ e.visit = calls[c].event.visit,
           FollowsVisit(queue', Len(queue) + 1)
    PROVE  OperatorInv'
<1>1. queue \in Seq(EventOf) BY DEF OperatorInv, OperatorTyped
<1>2. /\ queue' \in Seq(EventOf) /\ Extends(queue', queue)
      /\ queue'[Len(queue) + 1] = e
      /\ \A i \in DOMAIN queue' : i \in DOMAIN queue \/ i = Len(queue) + 1
    BY <1>1, AppendExtends
<1>3. DOMAIN rows' \subseteq LocalVisit /\ rows' \in [DOMAIN rows' -> RowOf]
    BY DEF OperatorInv, OperatorTyped
<1>4. \A v \in DOMAIN rows' : Backed(queue', rows'[v], v)
    BY <1>2, StaysBacked DEF OperatorInv, EverythingBacked
<1>5. \A i \in DOMAIN queue' \ DOMAIN queue :
         /\ queue'[i].kind = "CREATED" => Announces(calls[c]) /\ queue'[i].visit = calls[c].event.visit
         /\ FollowsVisit(queue', i)
    BY <1>2
<1>6. counter' = counter OBVIOUS
<1> QED BY <1>2, <1>3, <1>4, <1>5, <1>6, CallStepInv

-----------------------------------------------------------------------------
\* At the start nothing is stored.
LEMMA OperatorStarts == OperatorInit => OperatorInv
<1> SUFFICES ASSUME OperatorInit PROVE OperatorInv OBVIOUS
<1> USE DEF OperatorInit
<1>1. DOMAIN rows = {} /\ DOMAIN queue = {} OBVIOUS
<1>2. \A c \in Call : calls[c] = Idle OBVIOUS
<1>3. OperatorTyped
  <2>1. rows \in [DOMAIN rows -> RowOf] BY <1>1
  <2>2. queue \in Seq(EventOf) OBVIOUS
  <2>3. calls \in [Call -> CallOf] BY DEF CallOf
  <2> QED BY <1>1, <2>1, <2>2, <2>3 DEF OperatorTyped
<1>4. EverythingBacked BY <1>1, <1>2 DEF EverythingBacked, CallBacked, Idle
<1>5. NumbersTaken /\ NumbersAreNotReused
    BY <1>1, <1>2 DEF NumbersTaken, NumbersAreNotReused, Queued, Announces, Idle
<1> QED BY <1>1, <1>3, <1>4, <1>5 DEF OperatorInv

\* createTransaction takes a number nobody has.
LEMMA CreateTransactionInv ==
    ASSUME OperatorInv, NEW c \in Call, NEW approvalRequired \in BOOLEAN,
           CreateTransaction(c, approvalRequired)
    PROVE  OperatorInv'
<1> DEFINE row == [state |-> "IDENTIFIED", completed |-> FALSE,
                   gross |-> NoWeight, tare |-> NoWeight, net |-> NoWeight,
                   approvalRequired |-> approvalRequired, events |-> <<>>]
           e == Event("CREATED", counter + 1, {}, NoWeight, NoWeight, NoWeight)
           x == [step |-> "queue", row |-> row, event |-> e]
<1>1. /\ calls' = [calls EXCEPT ![c] = x] /\ counter' = counter + 1 /\ UNCHANGED <<rows, queue>>
      /\ counter + 1 \in LocalVisit
    BY DEF CreateTransaction, Begin
<1>2. e.visit = counter + 1 /\ e.kind = "CREATED" /\ e \in PlainEvent
    BY <1>1 DEF Event, PlainEvent, NoWeight
<1>3. row \in RowOf BY DEF RowOf, RowState, NoWeight
<1>4. x \in CallOf BY <1>2, <1>3 DEF CallOf, Queueing
<1>5. CallBacked(queue', x) BY <1>2 DEF CallBacked, BackedWith, NoWeight
<1>6. /\ queue' \in Seq(EventOf) /\ DOMAIN rows' \subseteq LocalVisit /\ rows' \in [DOMAIN rows' -> RowOf]
      /\ \A v \in DOMAIN rows' : Backed(queue', rows'[v], v)
    BY <1>1 DEF OperatorInv, OperatorTyped, EverythingBacked
<1>7. Extends(queue', queue) /\ DOMAIN queue' = DOMAIN queue BY <1>1 DEF Extends
<1>8. x.event.visit = counter + 1 BY <1>2
<1> HIDE DEF x
<1> QED BY <1>1, <1>4, <1>5, <1>6, <1>7, <1>8, CallStepInv

\* The event of a row that names its CREATED event depends on it.
LEMMA CreatedEventOf ==
    ASSUME NEW q, NEW r \in RowOf, NEW v, Rooted(q, r, v)
    PROVE  r.events[1] \in CreatedEvent(r) /\ CreatedEvent(r) \in SUBSET Nat
<1>1. r.events \in Seq(Nat) /\ r.events # <<>> BY DEF RowOf, Rooted
<1>2. 1 \in DOMAIN r.events BY <1>1
<1>3. r.events[1] \in Nat BY <1>1, <1>2
<1> QED BY <1>2, <1>3 DEF CreatedEvent

\* A call that read its row holds one whose new part its event carries.
LEMMA ReadRowInv ==
    ASSUME OperatorInv, NEW c \in Call, NEW v \in DOMAIN rows, NEW r \in RowOf,
           NEW kind \in {"GROSS", "TARE", "STATE"}, NEW gross \in Int, NEW tare \in Int, NEW net \in Int,
           r.events = rows[v].events,
           r.gross = rows[v].gross \/ (kind = "GROSS" /\ r.gross = gross),
           r.tare = rows[v].tare \/ (kind = "TARE" /\ r.tare = tare),
           r.completed = rows[v].completed \/ kind = "STATE",
           Begin(c, [step |-> "queue", row |-> r,
                     event |-> Event(kind, v, CreatedEvent(rows[v]), gross, tare, net)]),
           UNCHANGED <<counter, rows, queue>>
    PROVE  OperatorInv'
<1> DEFINE e == Event(kind, v, CreatedEvent(rows[v]), gross, tare, net)
           x == [step |-> "queue", row |-> r, event |-> e]
<1>1. v \in LocalVisit /\ rows[v] \in RowOf /\ Backed(queue, rows[v], v)
    BY DEF OperatorInv, OperatorTyped, EverythingBacked
<1>2. rows[v].events[1] \in CreatedEvent(rows[v]) /\ CreatedEvent(rows[v]) \in SUBSET Nat
    BY <1>1, CreatedEventOf DEF Backed
<1>3. /\ e.kind = kind /\ e.visit = v /\ e.dependsOn = CreatedEvent(rows[v])
      /\ e.gross = gross /\ e.tare = tare
    BY DEF Event
<1>4. e \in PlainEvent BY <1>1, <1>2 DEF Event, PlainEvent
<1> HIDE DEF e
<1>5. x \in CallOf BY <1>4 DEF CallOf, Queueing
<1>6. BackedWith(queue, r, e)
  <2>1. Rooted(queue, r, v) /\ r.events[1] \in e.dependsOn BY <1>1, <1>2, <1>3 DEF Backed, Rooted
  <2>2. \A i \in DOMAIN r.events : InQueue(queue, r.events[i], v) BY <1>1 DEF Backed
  <2>3. r.gross # NoWeight => GrossQueued(queue, v, r.gross) \/ (e.kind = "GROSS" /\ e.gross = r.gross)
      BY <1>1, <1>3 DEF Backed
  <2>4. r.tare # NoWeight => TareQueued(queue, v, r.tare) \/ (e.kind = "TARE" /\ e.tare = r.tare)
      BY <1>1, <1>3 DEF Backed
  <2>5. r.completed => EndQueued(queue, v) \/ e.kind = "STATE" BY <1>1, <1>3 DEF Backed
  <2> QED BY <1>3, <2>1, <2>2, <2>3, <2>4, <2>5 DEF BackedWith
<1>7. CallBacked(queue, x) BY <1>6 DEF CallBacked
<1>8. ~Announces(x) BY <1>3 DEF Announces
<1>9. calls' = [calls EXCEPT ![c] = x] BY DEF Begin, e
<1> HIDE DEF x
<1> QED BY <1>5, <1>7, <1>8, <1>9, QuietStepInv

\* captureWeighment("GROSS").
LEMMA CaptureGrossInv ==
    ASSUME OperatorInv, NEW c \in Call, NEW v \in LocalVisit, NEW w \in Weight, CaptureGross(c, v, w)
    PROVE  OperatorInv'
<1> DEFINE r == [rows[v] EXCEPT !.gross = w, !.state = "GROSS_CAPTURED"]
<1>1. v \in DOMAIN rows /\ rows[v] \in RowOf BY DEF CaptureGross, OperatorInv, OperatorTyped
<1>2. w \in Int /\ NoWeight \in Int BY OperatorAssumption DEF NoWeight
<1>3. /\ r \in RowOf /\ r.events = rows[v].events /\ r.gross = w /\ r.tare = rows[v].tare
      /\ r.completed = rows[v].completed
    BY <1>1, <1>2 DEF RowOf, RowState
<1>4. /\ Begin(c, [step |-> "queue", row |-> r,
                   event |-> Event("GROSS", v, CreatedEvent(rows[v]), w, NoWeight, NoWeight)])
      /\ UNCHANGED <<counter, rows, queue>>
    BY DEF CaptureGross, localStore
<1> HIDE DEF r
<1> QED BY <1>1, <1>2, <1>3, <1>4, ReadRowInv

\* captureWeighment("TARE").
LEMMA CaptureTareInv ==
    ASSUME OperatorInv, NEW c \in Call, NEW v \in LocalVisit, NEW w \in Weight, CaptureTare(c, v, w)
    PROVE  OperatorInv'
<1> DEFINE r == [rows[v] EXCEPT !.tare = w, !.net = rows[v].gross - w, !.state = "TARE_CAPTURED"]
<1>1. v \in DOMAIN rows /\ rows[v] \in RowOf BY DEF CaptureTare, OperatorInv, OperatorTyped
<1>2. w \in Int /\ NoWeight \in Int BY OperatorAssumption DEF NoWeight
<1>3. rows[v].gross \in Int /\ rows[v].gross - w \in Int BY <1>1, <1>2 DEF RowOf
<1>4. /\ r \in RowOf /\ r.events = rows[v].events /\ r.gross = rows[v].gross /\ r.tare = w
      /\ r.completed = rows[v].completed
    BY <1>1, <1>2, <1>3 DEF RowOf, RowState
<1>5. /\ Begin(c, [step |-> "queue", row |-> r,
                   event |-> Event("TARE", v, CreatedEvent(rows[v]), NoWeight, w, NoWeight)])
      /\ UNCHANGED <<counter, rows, queue>>
    BY DEF CaptureTare, localStore
<1> HIDE DEF r
<1> QED BY <1>1, <1>2, <1>4, <1>5, ReadRowInv

\* complete, which policy lets pass.
LEMMA CompleteInv ==
    ASSUME OperatorInv, NEW c \in Call, NEW v \in LocalVisit, Complete(c, v)
    PROVE  OperatorInv'
<1> DEFINE r == [rows[v] EXCEPT !.state = "LOCAL_COMPLETED", !.completed = TRUE]
<1>1. v \in DOMAIN rows /\ rows[v] \in RowOf BY DEF Complete, OperatorInv, OperatorTyped
<1>2. rows[v].gross \in Int /\ rows[v].tare \in Int /\ rows[v].net \in Int BY <1>1 DEF RowOf, RowState
<1>3. /\ r \in RowOf /\ r.events = rows[v].events /\ r.gross = rows[v].gross /\ r.tare = rows[v].tare
    BY <1>1 DEF RowOf, RowState
<1>4. /\ Begin(c, [step |-> "queue", row |-> r,
                   event |-> Event("STATE", v, CreatedEvent(rows[v]),
                                   rows[v].gross, rows[v].tare, rows[v].net)])
      /\ UNCHANGED <<counter, rows, queue>>
    BY DEF Complete, localStore
<1> HIDE DEF r
<1> QED BY <1>1, <1>2, <1>3, <1>4, ReadRowInv

\* complete, which policy refuses.
LEMMA PauseForApprovalInv ==
    ASSUME OperatorInv, NEW c \in Call, NEW v \in LocalVisit, PauseForApproval(c, v)
    PROVE  OperatorInv'
<1> DEFINE r == [rows[v] EXCEPT !.state = "PAUSED_APPROVAL"]
           x == [step |-> "store", visit |-> v, row |-> r]
<1>1. rows[v] \in RowOf /\ Backed(queue, rows[v], v)
    BY DEF PauseForApproval, OperatorInv, OperatorTyped, EverythingBacked
<1>2. /\ r \in RowOf /\ r.events = rows[v].events /\ r.gross = rows[v].gross /\ r.tare = rows[v].tare
      /\ r.completed = rows[v].completed
    BY <1>1 DEF RowOf, RowState
<1>3. calls' = [calls EXCEPT ![c] = x] /\ UNCHANGED <<counter, rows, queue>>
    BY DEF PauseForApproval, Begin, localStore
<1> HIDE DEF r
<1>4. Backed(queue, r, v) BY <1>1, <1>2 DEF Backed, Rooted
<1>5. x \in CallOf /\ CallBacked(queue, x) /\ ~Announces(x)
    BY <1>2, <1>4 DEF CallOf, Storing, CallBacked, Announces
<1> HIDE DEF x
<1> QED BY <1>3, <1>5, QuietStepInv

\* enqueue: what the row of the call shows is now in the queue.
LEMMA EnqueueInv ==
    ASSUME OperatorInv, NEW c \in Call, Enqueue(c)
    PROVE  OperatorInv'
<1> DEFINE e == calls[c].event
           n == Len(queue) + 1
           r == [calls[c].row EXCEPT !.events = Append(@, n)]
           x == [step |-> "store", visit |-> e.visit, row |-> r]
<1>1. calls[c] \in Queueing /\ BackedWith(queue, calls[c].row, e)
    BY CallKinds DEF Enqueue, OperatorInv, OperatorTyped, EverythingBacked, CallBacked
<1>2. calls[c].row \in RowOf /\ e \in PlainEvent /\ e \in EventOf BY <1>1 DEF Queueing, EventOf
<1>3. queue \in Seq(EventOf) BY DEF OperatorInv, OperatorTyped
<1>4. queue' = Append(queue, e) /\ Len(queue') = n BY <1>3 DEF Enqueue
<1>5. calls' = [calls EXCEPT ![c] = x] /\ UNCHANGED <<counter, rows>>
    BY <1>4 DEF Enqueue, Continue
<1>6. /\ Extends(queue', queue) /\ n \in DOMAIN queue' /\ queue'[n] = e
      /\ \A i \in DOMAIN queue : i < n
    BY <1>2, <1>3, <1>4, AppendExtends
<1>7. BackedWith(queue', calls[c].row, e) BY <1>1, <1>6, StaysBacked
<1>8. /\ r \in RowOf /\ r.gross = calls[c].row.gross /\ r.tare = calls[c].row.tare
      /\ r.completed = calls[c].row.completed /\ r.events = Append(calls[c].row.events, n)
  <2>1. calls[c].row.events \in Seq(Nat) /\ n \in Nat BY <1>2, <1>3 DEF RowOf
  <2>2. Append(calls[c].row.events, n) \in Seq(Nat) BY <2>1
  <2> QED BY <1>2, <2>2 DEF RowOf
<1> HIDE DEF r
<1>9. Backed(queue', r, e.visit)
  <2>1. InQueue(queue', n, e.visit) BY <1>6 DEF InQueue
  <2>2. calls[c].row.events \in Seq(Nat) BY <1>2 DEF RowOf
  <2>3. \A i \in DOMAIN r.events :
           \/ i \in DOMAIN calls[c].row.events /\ r.events[i] = calls[c].row.events[i]
           \/ r.events[i] = n
      BY <1>8, <2>2
  <2>4. \A i \in DOMAIN r.events : InQueue(queue', r.events[i], e.visit)
      BY <1>7, <2>1, <2>3 DEF BackedWith
  <2>5. r.gross # NoWeight => GrossQueued(queue', e.visit, r.gross)
      BY <1>6, <1>7, <1>8 DEF BackedWith, GrossQueued
  <2>6. r.tare # NoWeight => TareQueued(queue', e.visit, r.tare)
      BY <1>6, <1>7, <1>8 DEF BackedWith, TareQueued
  <2>7. r.completed => EndQueued(queue', e.visit)
      BY <1>6, <1>7, <1>8 DEF BackedWith, EndQueued
  <2>8. Rooted(queue', r, e.visit)
    <3>1. CASE e.kind = "CREATED"
      <4>1. calls[c].row.events = <<>> BY <1>7, <3>1 DEF BackedWith
      <4>2. r.events # <<>> /\ r.events[1] = n BY <1>8, <4>1
      <4> QED BY <1>6, <2>1, <3>1, <4>2 DEF Rooted
    <3>2. CASE e.kind # "CREATED"
      <4>1. Rooted(queue', calls[c].row, e.visit) BY <1>7, <3>2 DEF BackedWith
      <4>2. calls[c].row.events # <<>> BY <4>1 DEF Rooted
      <4>3. r.events # <<>> /\ r.events[1] = calls[c].row.events[1] BY <1>8, <2>2, <4>2
      <4> QED BY <4>1, <4>3 DEF Rooted
    <3> QED BY <3>1, <3>2
  <2> QED BY <2>4, <2>5, <2>6, <2>7, <2>8 DEF Backed
<1>10. x \in CallOf /\ CallBacked(queue', x) /\ ~Announces(x)
    BY <1>2, <1>8, <1>9 DEF CallOf, Storing, CallBacked, Announces, PlainEvent
<1>11. FollowsVisit(queue', n)
  <2>1. CASE e.kind = "CREATED" BY <1>6, <2>1 DEF FollowsVisit
  <2>2. CASE e.kind # "CREATED"
    <3>1. /\ Rooted(queue, calls[c].row, e.visit) /\ calls[c].row.events[1] \in e.dependsOn
        BY <1>1, <2>2 DEF BackedWith
    <3>2. /\ calls[c].row.events[1] \in DOMAIN queue /\ queue[calls[c].row.events[1]].visit = e.visit
          /\ queue[calls[c].row.events[1]].kind = "CREATED"
        BY <3>1 DEF Rooted, InQueue
    <3> QED BY <1>6, <3>1, <3>2 DEF FollowsVisit, Extends
  <2> QED BY <2>1, <2>2
<1>12. e.kind = "CREATED" => Announces(calls[c]) BY DEF Announces, Enqueue
<1> HIDE DEF x
<1> QED BY <1>2, <1>4, <1>5, <1>10, <1>11, <1>12, QueueingStepInv

\* upsertTransaction: the row is that of the call.
LEMMA UpsertInv ==
    ASSUME OperatorInv, NEW c \in Call, Upsert(c)
    PROVE  OperatorInv'
<1>1. calls[c] \in Storing /\ Backed(queue, calls[c].row, calls[c].visit)
    BY CallKinds DEF Upsert, OperatorInv, OperatorTyped, EverythingBacked, CallBacked
<1>2. calls[c].visit \in LocalVisit /\ calls[c].row \in RowOf BY <1>1 DEF Storing
<1>3. /\ calls' = [calls EXCEPT ![c] = Idle] /\ UNCHANGED <<counter, queue>>
      /\ rows' = [u \in DOMAIN rows \cup {calls[c].visit} |->
                     IF u = calls[c].visit THEN calls[c].row ELSE rows[u]]
    BY DEF Upsert, Continue
<1>4. DOMAIN rows \subseteq LocalVisit /\ rows \in [DOMAIN rows -> RowOf] /\ queue \in Seq(EventOf)
    BY DEF OperatorInv, OperatorTyped
<1>5. DOMAIN rows' = DOMAIN rows \cup {calls[c].visit} BY <1>3
<1>6. DOMAIN rows' \subseteq LocalVisit /\ rows' \in [DOMAIN rows' -> RowOf]
    BY <1>2, <1>3, <1>4, <1>5
<1>7. \A v \in DOMAIN rows' : Backed(queue', rows'[v], v)
    BY <1>1, <1>3, <1>5 DEF OperatorInv, EverythingBacked
<1>8. Idle \in CallOf /\ CallBacked(queue', Idle) /\ ~Announces(Idle)
    BY DEF CallOf, CallBacked, Idle, Announces
<1>9. Extends(queue', queue) /\ queue' \in Seq(EventOf) /\ DOMAIN queue' = DOMAIN queue
    BY <1>3, <1>4 DEF Extends
<1> QED BY <1>3, <1>6, <1>7, <1>8, <1>9, CallStepInv

\* captureAnpr: the event, whatever visit it is of.
LEMMA CaptureAnprInv ==
    ASSUME OperatorInv, NEW c \in Call, NEW v \in LocalVisit, CaptureAnpr(c, v)
    PROVE  OperatorInv'
<1> DEFINE e == Event("ANPR", v, {}, NoWeight, NoWeight, NoWeight)
           x == [step |-> "load", visit |-> v, id |-> Len(queue) + 1]
<1>1. e.kind = "ANPR" /\ e.visit = v /\ e \in EventOf BY DEF Event, EventOf, PlainEvent, NoWeight
<1>2. queue' = Append(queue, e) /\ calls' = [calls EXCEPT ![c] = x] /\ UNCHANGED <<counter, rows>>
    BY DEF CaptureAnpr, Begin
<1>3. queue \in Seq(EventOf) BY DEF OperatorInv, OperatorTyped
<1> HIDE DEF e
<1>4. Len(queue) + 1 \in DOMAIN queue' /\ queue'[Len(queue) + 1] = e BY <1>1, <1>2, <1>3, AppendExtends
<1>5. Len(queue) + 1 \in Nat BY <1>3
<1>6. x \in CallOf /\ CallBacked(queue', x) /\ ~Announces(x)
    BY <1>1, <1>4, <1>5 DEF CallOf, Loading, CallBacked, InQueue, Announces
<1>7. FollowsVisit(queue', Len(queue) + 1) BY <1>1, <1>4 DEF FollowsVisit
<1> HIDE DEF x
<1> QED BY <1>1, <1>2, <1>6, <1>7, QueueingStepInv

\* ... and the row, if there is one.
LEMMA LoadAfterAnprInv ==
    ASSUME OperatorInv, NEW c \in Call, LoadAfterAnpr(c)
    PROVE  OperatorInv'
<1> DEFINE v == calls[c].visit
           r == [rows[v] EXCEPT !.events = Append(@, calls[c].id)]
           x == IF v \in DOMAIN rows THEN [step |-> "store", visit |-> v, row |-> r] ELSE Idle
<1>1. calls[c] \in Loading /\ InQueue(queue, calls[c].id, v)
    BY CallKinds DEF LoadAfterAnpr, OperatorInv, OperatorTyped, EverythingBacked, CallBacked
<1>2. calls' = [calls EXCEPT ![c] = x] /\ UNCHANGED <<counter, rows, queue>>
    BY DEF LoadAfterAnpr, Continue, localStore
<1>3. CASE v \notin DOMAIN rows
  <2>1. x = Idle BY <1>3
  <2>2. x \in CallOf /\ CallBacked(queue, x) /\ ~Announces(x)
      BY <2>1 DEF CallOf, CallBacked, Idle, Announces
  <2> HIDE DEF x
  <2> QED BY <1>2, <2>2, QuietStepInv
<1>4. CASE v \in DOMAIN rows
  <2>1. v \in LocalVisit /\ rows[v] \in RowOf /\ Backed(queue, rows[v], v)
      BY <1>4 DEF OperatorInv, OperatorTyped, EverythingBacked
  <2>2. rows[v].events \in Seq(Nat) /\ calls[c].id \in Nat BY <1>1, <2>1 DEF RowOf, Loading
  <2>3. Append(rows[v].events, calls[c].id) \in Seq(Nat) BY <2>2
  <2>4. /\ r \in RowOf /\ r.events = Append(rows[v].events, calls[c].id) /\ r.gross = rows[v].gross
        /\ r.tare = rows[v].tare /\ r.completed = rows[v].completed
      BY <2>1, <2>3 DEF RowOf
  <2>5. x = [step |-> "store", visit |-> v, row |-> r] BY <1>4
  <2> HIDE DEF r, x
  <2>6. Rooted(queue, r, v)
    <3>1. rows[v].events # <<>> BY <2>1 DEF Backed, Rooted
    <3>2. r.events # <<>> /\ r.events[1] = rows[v].events[1] BY <2>2, <2>4, <3>1
    <3> QED BY <2>1, <3>2 DEF Backed, Rooted
  <2>7. \A i \in DOMAIN r.events : InQueue(queue, r.events[i], v)
    <3>1. \A i \in DOMAIN r.events :
             (i \in DOMAIN rows[v].events /\ r.events[i] = rows[v].events[i]) \/ r.events[i] = calls[c].id
        BY <2>2, <2>4
    <3> QED BY <1>1, <2>1, <3>1 DEF Backed
  <2>8. Backed(queue, r, v) BY <2>1, <2>4, <2>6, <2>7 DEF Backed
  <2>9. x \in CallOf /\ CallBacked(queue, x) /\ ~Announces(x)
      BY <2>1, <2>4, <2>5, <2>8 DEF CallOf, Storing, CallBacked, Announces
  <2> QED BY <1>2, <2>9, QuietStepInv
<1> QED BY <1>3, <1>4

\* captureScan keeps the document ...
LEMMA CaptureScanInv ==
    ASSUME OperatorInv, NEW c \in Call, NEW v \in LocalVisit, NEW d \in Document, CaptureScan(c, v, d)
    PROVE  OperatorInv'
<1> DEFINE x == [step |-> "scan", visit |-> v, document |-> d]
<1>1. calls' = [calls EXCEPT ![c] = x] /\ UNCHANGED <<counter, rows, queue>>
    BY DEF CaptureScan, Begin
<1>2. x \in CallOf /\ CallBacked(queue, x) /\ ~Announces(x)
    BY DEF CallOf, Scanning, CallBacked, Announces
<1> HIDE DEF x
<1> QED BY <1>1, <1>2, QuietStepInv

\* ... and queues the event about it.
LEMMA EnqueueScanInv ==
    ASSUME OperatorInv, NEW c \in Call, EnqueueScan(c)
    PROVE  OperatorInv'
<1> DEFINE e == [kind |-> "SCAN", visit |-> calls[c].visit, dependsOn |-> {},
                 document |-> calls[c].document]
<1>1. calls[c] \in Scanning BY CallKinds DEF EnqueueScan, OperatorInv, OperatorTyped
<1>2. e.kind = "SCAN" /\ e \in EventOf BY <1>1 DEF Scanning, EventOf, ScanEvent
<1>3. queue' = Append(queue, e) /\ calls' = [calls EXCEPT ![c] = Idle] /\ UNCHANGED <<counter, rows>>
    BY DEF EnqueueScan, Continue
<1>4. Idle \in CallOf /\ CallBacked(queue', Idle) /\ ~Announces(Idle)
    BY DEF CallOf, CallBacked, Idle, Announces
<1> HIDE DEF e
<1>5. FollowsVisit(queue', Len(queue) + 1)
  <2>1. queue'[Len(queue) + 1] = e BY <1>2, <1>3, AppendExtends DEF OperatorInv, OperatorTyped
  <2> QED BY <1>2, <2>1 DEF FollowsVisit
<1> QED BY <1>2, <1>3, <1>4, <1>5, QueueingStepInv

\* detectLocalAnomaly: an event of its own, the call has nothing to keep.
LEMMA DetectLocalAnomalyInv ==
    ASSUME OperatorInv, NEW c \in Call, NEW v \in LocalVisit, DetectLocalAnomaly(c, v)
    PROVE  OperatorInv'
<1> DEFINE e == Event("ANOMALY", v, {}, NoWeight, NoWeight, NoWeight)
<1>1. e.kind = "ANOMALY" /\ e \in EventOf BY DEF Event, EventOf, PlainEvent, NoWeight
<1>2. queue' = Append(queue, e) /\ UNCHANGED <<counter, rows>> BY DEF DetectLocalAnomaly
<1>3. calls' = [calls EXCEPT ![c] = Idle]
  <2>1. calls \in [Call -> CallOf] /\ calls[c] = Idle /\ calls' = calls
      BY DEF DetectLocalAnomaly, OperatorInv, OperatorTyped
  <2> QED BY <2>1
<1>4. Idle \in CallOf /\ CallBacked(queue', Idle) /\ ~Announces(Idle)
    BY DEF CallOf, CallBacked, Idle, Announces
<1> HIDE DEF e
<1>5. FollowsVisit(queue', Len(queue) + 1)
  <2>1. queue'[Len(queue) + 1] = e BY <1>1, <1>2, AppendExtends DEF OperatorInv, OperatorTyped
  <2> QED BY <1>1, <2>1 DEF FollowsVisit
<1> QED BY <1>1, <1>2, <1>3, <1>4, <1>5, QueueingStepInv

\* What the queue and the rows say is all that matters when no call does.
LEMMA CallsEndInv ==
    ASSUME OperatorInv, UNCHANGED <<counter, rows, queue>>, calls' = [c \in Call |-> Idle]
    PROVE  OperatorInv'
<1>1. \A c \in Call : calls'[c] = Idle OBVIOUS
<1>2. OperatorTyped'
  <2>1. calls' \in [Call -> CallOf] BY DEF CallOf
  <2> QED BY <2>1 DEF OperatorInv, OperatorTyped
<1>3. EverythingBacked'
    BY <1>1 DEF OperatorInv, EverythingBacked, CallBacked, Idle
<1>4. NumbersTaken' BY <1>1 DEF OperatorInv, NumbersTaken, Announces, Idle
<1>5. NumbersAreNotReused' BY DEF OperatorInv, NumbersAreNotReused, Queued
<1>6. (\A i \in DOMAIN queue : FollowsVisit(queue, i))' BY DEF OperatorInv
<1> QED BY <1>2, <1>3, <1>4, <1>5, <1>6 DEF OperatorInv

\* A crash loses what the calls keep, none of it is in a row or the queue yet.
LEMMA RestartInv == OperatorInv /\ Restart => OperatorInv'
<1> SUFFICES ASSUME OperatorInv, Restart PROVE OperatorInv' OBVIOUS
<1>1. calls' = [c \in Call |-> Idle] /\ UNCHANGED <<counter, rows, queue>> BY DEF Restart, localStore
<1> QED BY <1>1, CallsEndInv

\* Nothing the invariant is about changes.
LEMMA OperatorStutters ==
    ASSUME OperatorInv, UNCHANGED <<counter, rows, queue, calls>>
    PROVE  OperatorInv'
<1>1. OperatorTyped' BY DEF OperatorInv, OperatorTyped
<1>2. EverythingBacked' BY DEF OperatorInv, EverythingBacked
<1>3. NumbersTaken' BY DEF OperatorInv, NumbersTaken
<1>4. NumbersAreNotReused' BY DEF OperatorInv, NumbersAreNotReused, Queued
<1>5. (\A i \in DOMAIN queue : FollowsVisit(queue, i))' BY DEF OperatorInv
<1> QED BY <1>1, <1>2, <1>3, <1>4, <1>5 DEF OperatorInv

\* Every step keeps the invariant.
LEMMA OperatorKeeps == OperatorInv /\ [OperatorNext]_operatorVars => OperatorInv'
<1> SUFFICES ASSUME OperatorInv, [OperatorNext]_operatorVars PROVE OperatorInv' OBVIOUS
<1>1. CASE \E c \in Call, approvalRequired \in BOOLEAN : CreateTransaction(c, approvalRequired)
    BY <1>1, CreateTransactionInv
<1>2. CASE \E c \in Call, v \in LocalVisit, w \in Weight : CaptureGross(c, v, w) BY <1>2, CaptureGrossInv
<1>3. CASE \E c \in Call, v \in LocalVisit, w \in Weight : CaptureTare(c, v, w) BY <1>3, CaptureTareInv
<1>4. CASE \E c \in Call, v \in LocalVisit : Complete(c, v) BY <1>4, CompleteInv
<1>5. CASE \E c \in Call, v \in LocalVisit : PauseForApproval(c, v) BY <1>5, PauseForApprovalInv
<1>6. CASE \E c \in Call, v \in LocalVisit : CaptureAnpr(c, v) BY <1>6, CaptureAnprInv
<1>7. CASE \E c \in Call, v \in LocalVisit : DetectLocalAnomaly(c, v) BY <1>7, DetectLocalAnomalyInv
<1>8. CASE \E c \in Call, v \in LocalVisit, d \in Document : CaptureScan(c, v, d) BY <1>8, CaptureScanInv
<1>9. CASE \E c \in Call : Enqueue(c) BY <1>9, EnqueueInv
<1>10. CASE \E c \in Call : Upsert(c) BY <1>10, UpsertInv
<1>11. CASE \E c \in Call : LoadAfterAnpr(c) BY <1>11, LoadAfterAnprInv
<1>12. CASE \E c \in Call : EnqueueScan(c) BY <1>12, EnqueueScanInv
<1>13. CASE ConfigExpires BY <1>13, OperatorStutters DEF ConfigExpires, localStore
<1>14. CASE Restart BY <1>14, RestartInv
<1>15. CASE UNCHANGED operatorVars BY <1>15, OperatorStutters DEF operatorVars, localStore
<1> QED BY <1>1, <1>2, <1>3, <1>4, <1>5, <1>6, <1>7, <1>8, <1>9, <1>10, <1>11, <1>12, <1>13, <1>14, <1>15
        DEF OperatorNext

\* The invariant holds always.
LEMMA OperatorCorrect == OperatorSpec => []OperatorInv
BY OperatorStarts, OperatorKeeps, PTL DEF OperatorSpec

\* No number of the day announces two visits, whatever the interleaving of the
\* calls and the crashes between the counter, the event and the row.
THEOREM NumbersCorrect == OperatorSpec => []NumbersAreNotReused
<1>1. OperatorInv => NumbersAreNotReused BY DEF OperatorInv
<1> QED BY <1>1, OperatorCorrect, PTL

\* What a row shows has been queued, though calls write rows back whole over
\* those of others.
THEOREM RecordedCorrect == OperatorSpec => []RecordedIsQueued
<1>1. OperatorInv => RecordedIsQueued
    BY DEF OperatorInv, EverythingBacked, Backed, RecordedIsQueued, Queued,
           InQueue, GrossQueued, TareQueued, EndQueued
<1> QED BY <1>1, OperatorCorrect, PTL

\* An event that must wait for its visit is queued after the one it waits for.
THEOREM PrerequisiteCorrect == OperatorSpec => []PrerequisiteIsQueued
<1>1. OperatorInv => PrerequisiteIsQueued
    BY DEF OperatorInv, FollowsVisit, PrerequisiteIsQueued, Queued
<1> QED BY <1>1, OperatorCorrect, PTL

\* The net weight of a row that has a tare was not negative when it was
\* computed; what a call holds is written back with it.
NetOK(r) == r.tare # NoWeight => r.net \in Nat
CallNetOK(x) == x.step \in {"queue", "store"} => NetOK(x.row)
NetsOK == (\A v \in DOMAIN rows : NetOK(rows[v])) /\ \A c \in Call : CallNetOK(calls[c])

ConfigOK == policy \in Policy /\ configStale \in BOOLEAN /\ files \subseteq Document

OperatorSafe == OperatorInv /\ NetsOK /\ ConfigOK

\* A call changes what it holds and leaves the rows alone.
LEMMA CallNets ==
    ASSUME OperatorInv, NetsOK, NEW c \in Call, NEW x, CallNetOK(x),
           calls' = [calls EXCEPT ![c] = x], UNCHANGED rows
    PROVE  NetsOK'
<1>1. calls \in [Call -> CallOf] BY DEF OperatorInv, OperatorTyped
<1>2. \A d \in Call : calls'[d] = x \/ calls'[d] = calls[d] BY <1>1
<1> QED BY <1>2 DEF NetsOK

\* The row of a visit and its fields.
LEMMA RowNet ==
    ASSUME OperatorInv, NetsOK, NEW v \in DOMAIN rows
    PROVE  rows[v] \in RowOf /\ NetOK(rows[v])
BY DEF OperatorInv, OperatorTyped, NetsOK

\* Every step keeps the net weights: only a tare that the gross weight covers
\* makes a new one.
LEMMA NetsKept ==
    ASSUME OperatorInv, NetsOK, [OperatorNext]_operatorVars
    PROVE  NetsOK'
<1>1. CallNetOK(Idle) BY DEF CallNetOK, Idle
<1>2. ASSUME NEW c \in Call, NEW approvalRequired \in BOOLEAN, CreateTransaction(c, approvalRequired)
      PROVE  NetsOK'
  <2> DEFINE row == [state |-> "IDENTIFIED", completed |-> FALSE,
                     gross |-> NoWeight, tare |-> NoWeight, net |-> NoWeight,
                     approvalRequired |-> approvalRequired, events |-> <<>>]
             x == [step |-> "queue", row |-> row,
                   event |-> Event("CREATED", counter', {}, NoWeight, NoWeight, NoWeight)]
  <2>1. calls' = [calls EXCEPT ![c] = x] /\ UNCHANGED rows BY <1>2 DEF CreateTransaction, Begin
  <2>2. CallNetOK(x) BY DEF CallNetOK, NetOK
  <2> HIDE DEF x
  <2> QED BY <2>1, <2>2, CallNets
<1>3. ASSUME NEW c \in Call, NEW v \in LocalVisit, NEW w \in Weight, CaptureGross(c, v, w)
      PROVE  NetsOK'
  <2> DEFINE row == [rows[v] EXCEPT !.gross = w, !.state = "GROSS_CAPTURED"]
             x == [step |-> "queue", row |-> row,
                   event |-> Event("GROSS", v, CreatedEvent(rows[v]), w, NoWeight, NoWeight)]
  <2>1. calls' = [calls EXCEPT ![c] = x] /\ UNCHANGED rows BY <1>3 DEF CaptureGross, Begin, localStore
  <2>2. rows[v] \in RowOf /\ NetOK(rows[v]) BY <1>3, RowNet DEF CaptureGross
  <2>3. row.tare = rows[v].tare /\ row.net = rows[v].net BY <2>2 DEF RowOf
  <2>4. x.row = row OBVIOUS
  <2> HIDE DEF x, row
  <2>5. CallNetOK(x) BY <2>2, <2>3, <2>4 DEF CallNetOK, NetOK
  <2> QED BY <2>1, <2>5, CallNets
<1>4. ASSUME NEW c \in Call, NEW v \in LocalVisit, NEW w \in Weight, CaptureTare(c, v, w)
      PROVE  NetsOK'
  <2> DEFINE row == [rows[v] EXCEPT !.tare = w, !.net = rows[v].gross - w, !.state = "TARE_CAPTURED"]
             x == [step |-> "queue", row |-> row,
                   event |-> Event("TARE", v, CreatedEvent(rows[v]), NoWeight, w, NoWeight)]
  <2>1. calls' = [calls EXCEPT ![c] = x] /\ UNCHANGED rows /\ w <= rows[v].gross
    BY <1>4 DEF CaptureTare, Begin, localStore
  <2>2. rows[v] \in RowOf BY <1>4, RowNet DEF CaptureTare
  <2>3. rows[v].gross \in Int /\ w \in Nat BY <2>2, OperatorAssumption DEF RowOf
  <2>4. row.net = rows[v].gross - w BY <2>2 DEF RowOf
  <2>5. x.row = row OBVIOUS
  <2> HIDE DEF x, row
  <2>6. row.net \in Nat BY <2>1, <2>3, <2>4
  <2>7. CallNetOK(x) BY <2>5, <2>6 DEF CallNetOK, NetOK
  <2> QED BY <2>1, <2>7, CallNets
<1>5. ASSUME NEW c \in Call, NEW v \in LocalVisit, Complete(c, v) PROVE NetsOK'
  <2> DEFINE row == [rows[v] EXCEPT !.state = "LOCAL_COMPLETED", !.completed = TRUE]
             x == [step |-> "queue", row |-> row,
                   event |-> Event("STATE", v, CreatedEvent(rows[v]),
                                   rows[v].gross, rows[v].tare, rows[v].net)]
  <2>1. calls' = [calls EXCEPT ![c] = x] /\ UNCHANGED rows BY <1>5 DEF Complete, Begin, localStore
  <2>2. rows[v] \in RowOf /\ NetOK(rows[v]) BY <1>5, RowNet DEF Complete
  <2>3. row.tare = rows[v].tare /\ row.net = rows[v].net BY <2>2 DEF RowOf
  <2>4. x.row = row OBVIOUS
  <2> HIDE DEF x, row
  <2>5. CallNetOK(x) BY <2>2, <2>3, <2>4 DEF CallNetOK, NetOK
  <2> QED BY <2>1, <2>5, CallNets
<1>6. ASSUME NEW c \in Call, NEW v \in LocalVisit, PauseForApproval(c, v) PROVE NetsOK'
  <2> DEFINE row == [rows[v] EXCEPT !.state = "PAUSED_APPROVAL"]
             x == [step |-> "store", visit |-> v, row |-> row]
  <2>1. calls' = [calls EXCEPT ![c] = x] /\ UNCHANGED rows
    BY <1>6 DEF PauseForApproval, Begin, localStore
  <2>2. rows[v] \in RowOf /\ NetOK(rows[v]) BY <1>6, RowNet DEF PauseForApproval
  <2>3. row.tare = rows[v].tare /\ row.net = rows[v].net BY <2>2 DEF RowOf
  <2>4. x.row = row OBVIOUS
  <2> HIDE DEF x, row
  <2>5. CallNetOK(x) BY <2>2, <2>3, <2>4 DEF CallNetOK, NetOK
  <2> QED BY <2>1, <2>5, CallNets
<1>7. ASSUME NEW c \in Call, Enqueue(c) PROVE NetsOK'
  <2> DEFINE row == [calls[c].row EXCEPT !.events = Append(calls[c].row.events, Len(queue'))]
             x == [step |-> "store", visit |-> calls[c].event.visit, row |-> row]
  <2>1. calls' = [calls EXCEPT ![c] = x] /\ UNCHANGED rows /\ calls[c].step = "queue"
    BY <1>7 DEF Enqueue, Continue
  <2>2. calls[c].row \in RowOf /\ NetOK(calls[c].row)
    <3>1. calls[c] \in Queueing BY <2>1, CallKinds DEF OperatorInv, OperatorTyped
    <3> QED BY <2>1, <3>1 DEF Queueing, NetsOK, CallNetOK
  <2>3. row.tare = calls[c].row.tare /\ row.net = calls[c].row.net BY <2>2 DEF RowOf
  <2>4. x.row = row OBVIOUS
  <2> HIDE DEF x, row
  <2>5. CallNetOK(x) BY <2>2, <2>3, <2>4 DEF CallNetOK, NetOK
  <2> QED BY <2>1, <2>5, CallNets
<1>8. ASSUME NEW c \in Call, Upsert(c) PROVE NetsOK'
  <2>1. calls[c].step = "store" /\ calls' = [calls EXCEPT ![c] = Idle]
        /\ rows' = [u \in DOMAIN rows \cup {calls[c].visit} |->
                       IF u = calls[c].visit THEN calls[c].row ELSE rows[u]]
    BY <1>8 DEF Upsert, Continue
  <2>2. NetOK(calls[c].row) BY <2>1 DEF NetsOK, CallNetOK
  <2>3. \A v \in DOMAIN rows' : NetOK(rows'[v]) BY <2>1, <2>2 DEF NetsOK
  <2>4. \A d \in Call : calls'[d] = Idle \/ calls'[d] = calls[d]
    BY <2>1 DEF OperatorInv, OperatorTyped
  <2> QED BY <1>1, <2>3, <2>4 DEF NetsOK
<1>9. ASSUME NEW c \in Call, LoadAfterAnpr(c) PROVE NetsOK'
  <2> DEFINE v == calls[c].visit
             row == [rows[v] EXCEPT !.events = Append(rows[v].events, calls[c].id)]
             x == [step |-> "store", visit |-> v, row |-> row]
  <2>1. CASE v \in DOMAIN rows
    <3>1. calls' = [calls EXCEPT ![c] = x] /\ UNCHANGED rows
      BY <1>9, <2>1 DEF LoadAfterAnpr, Continue, localStore
    <3>2. rows[v] \in RowOf /\ NetOK(rows[v]) BY <2>1, RowNet
    <3>3. row.tare = rows[v].tare /\ row.net = rows[v].net BY <3>2 DEF RowOf
    <3>4. x.row = row OBVIOUS
    <3> HIDE DEF x, row
    <3>5. CallNetOK(x) BY <3>2, <3>3, <3>4 DEF CallNetOK, NetOK
    <3> QED BY <3>1, <3>5, CallNets
  <2>2. CASE v \notin DOMAIN rows
    <3>1. calls' = [calls EXCEPT ![c] = Idle] /\ UNCHANGED rows
      BY <1>9, <2>2 DEF LoadAfterAnpr, Continue, localStore
    <3> QED BY <1>1, <3>1, CallNets
  <2> QED BY <2>1, <2>2
<1>10. ASSUME NEW c \in Call, NEW v \in LocalVisit,
              CaptureAnpr(c, v) \/ (\E d \in Document : CaptureScan(c, v, d)) \/ DetectLocalAnomaly(c, v)
       PROVE  NetsOK'
  <2>1. CASE DetectLocalAnomaly(c, v) BY <2>1 DEF DetectLocalAnomaly, NetsOK
  <2>2. CASE CaptureAnpr(c, v)
    <3> DEFINE x == [step |-> "load", visit |-> v, id |-> Len(queue) + 1]
    <3>1. calls' = [calls EXCEPT ![c] = x] /\ UNCHANGED rows BY <2>2 DEF CaptureAnpr, Begin
    <3>2. CallNetOK(x) BY DEF CallNetOK
    <3> HIDE DEF x
    <3> QED BY <3>1, <3>2, CallNets
  <2>3. ASSUME NEW d \in Document, CaptureScan(c, v, d) PROVE NetsOK'
    <3> DEFINE x == [step |-> "scan", visit |-> v, document |-> d]
    <3>1. calls' = [calls EXCEPT ![c] = x] /\ UNCHANGED rows BY <2>3 DEF CaptureScan, Begin
    <3>2. CallNetOK(x) BY DEF CallNetOK
    <3> HIDE DEF x
    <3> QED BY <3>1, <3>2, CallNets
  <2> QED BY <1>10, <2>1, <2>2, <2>3
<1>11. ASSUME NEW c \in Call, EnqueueScan(c) PROVE NetsOK'
  <2>1. calls' = [calls EXCEPT ![c] = Idle] /\ UNCHANGED rows BY <1>11 DEF EnqueueScan, Continue
  <2> QED BY <1>1, <2>1, CallNets
<1>12. CASE ConfigExpires \/ UNCHANGED operatorVars
  BY <1>12 DEF ConfigExpires, operatorVars, localStore, NetsOK
<1>13. CASE Restart
  <2>1. UNCHANGED rows /\ \A c \in Call : calls'[c] = Idle BY <1>13 DEF Restart, localStore
  <2> QED BY <1>1, <2>1 DEF NetsOK
<1> QED BY <1>2, <1>3, <1>4, <1>5, <1>6, <1>7, <1>8, <1>9, <1>10, <1>11, <1>12, <1>13 DEF OperatorNext

\* The cache is one of the backend's policies, the store has scanned documents.
LEMMA ConfigKept ==
    ASSUME ConfigOK, [OperatorNext]_operatorVars
    PROVE  ConfigOK'
<1>1. ASSUME NEW c \in Call, NEW v \in LocalVisit, NEW d \in Document, CaptureScan(c, v, d)
      PROVE  ConfigOK'
  BY <1>1 DEF CaptureScan, configCache, ConfigOK
<1>2. CASE ConfigExpires BY <1>2 DEF ConfigExpires, localStore, ConfigOK
<1>3. CASE Restart
  <2>1. files' = files /\ ((policy' \in Policy /\ configStale' = FALSE) \/ UNCHANGED configCache)
    BY <1>3 DEF Restart, localStore
  <2>2. CASE policy' \in Policy /\ configStale' = FALSE BY <2>1, <2>2 DEF ConfigOK
  <2>3. CASE UNCHANGED configCache BY <2>1, <2>3 DEF ConfigOK, configCache
  <2> QED BY <2>1, <2>2, <2>3
<1>4. CASE UNCHANGED <<policy, configStale, files>> BY <1>4 DEF ConfigOK
<1>5. ASSUME NEW c \in Call,
             \/ \E approvalRequired \in BOOLEAN : CreateTransaction(c, approvalRequired)
             \/ \E v \in LocalVisit :
                   \/ \E w \in Weight : CaptureGross(c, v, w) \/ CaptureTare(c, v, w)
                   \/ Complete(c, v) \/ PauseForApproval(c, v)
                   \/ CaptureAnpr(c, v) \/ DetectLocalAnomaly(c, v)
             \/ Enqueue(c) \/ Upsert(c) \/ LoadAfterAnpr(c) \/ EnqueueScan(c)
      PROVE  UNCHANGED <<policy, configStale, files>>
  BY <1>5 DEF CreateTransaction, CaptureGross, CaptureTare, Complete, PauseForApproval, CaptureAnpr,
              DetectLocalAnomaly, Enqueue, Upsert, LoadAfterAnpr, EnqueueScan, configCache, localStore
<1>6. CASE UNCHANGED operatorVars BY <1>4, <1>6 DEF operatorVars, configCache, localStore
<1> QED BY <1>1, <1>2, <1>3, <1>4, <1>5, <1>6 DEF OperatorNext

LEMMA OperatorSafeStep == OperatorSafe /\ [OperatorNext]_operatorVars => OperatorSafe'
BY OperatorKeeps, NetsKept, ConfigKept DEF OperatorSafe

LEMMA OperatorSafeInit == OperatorInit => OperatorSafe
<1> SUFFICES ASSUME OperatorInit PROVE OperatorSafe OBVIOUS
<1>1. NetsOK BY DEF OperatorInit, NetsOK, CallNetOK, Idle
<1>2. ConfigOK BY DEF OperatorInit, ConfigOK
<1> QED BY <1>1, <1>2, OperatorStarts DEF OperatorSafe

LEMMA OperatorSafeTypes == OperatorSafe => OperatorTypeOK
<1> SUFFICES ASSUME OperatorSafe PROVE OperatorTypeOK OBVIOUS
<1>1. ASSUME NEW c \in Call PROVE calls[c].step \in {"idle", "queue", "store", "load", "scan"}
  <2>1. calls[c] \in CallOf BY DEF OperatorSafe, OperatorInv, OperatorTyped
  <2>2. \A x \in Queueing \cup Storing \cup Loading \cup Scanning :
           x.step \in {"queue", "store", "load", "scan"}
    BY DEF Queueing, Storing, Loading, Scanning
  <2> QED BY <2>1, <2>2 DEF CallOf, Idle
<1>2. counter \in Nat /\ DOMAIN rows \subseteq LocalVisit
  BY DEF OperatorSafe, OperatorInv, OperatorTyped
<1>3. \A v \in DOMAIN rows : rows[v].tare # NoWeight => rows[v].net \in Nat
  BY DEF OperatorSafe, NetsOK, NetOK
<1> QED BY <1>1, <1>2, <1>3 DEF OperatorSafe, ConfigOK, OperatorTypeOK

\* No row of a weighed visit has a negative net weight, however calls write over
\* each other's rows: OperatorTypeOK.
THEOREM OperatorTyping == OperatorSpec => []OperatorTypeOK
BY OperatorSafeInit, OperatorSafeStep, OperatorSafeTypes, PTL DEF OperatorSpec

-----------------------------------------------------------------------------
(* LocalStore                                                              *)

\* Between the steps of a rewrite the content that was stored before it, or the
\* new one, is always where the next process looks for it.
RewriteOK ==
    /\ storeStep = "idle" => writing = Missing
    /\ storeStep \in {"temp", "dropped", "kept"} => tempFile = Stored \cup {writing}
    /\ storeStep = "dropped" => backupFile = Missing
    /\ storeStep = "kept" => storeFile = Missing
    /\ storeStep \in {"replaced", "done"} => storeFile # Missing /\ writing \in storeFile
    /\ storeStep # "idle" => recovered
    /\ recovered /\ storeStep # "kept" => storeFile # Missing \/ backupFile = Missing

StoreInv == StoreTypeOK /\ RewriteOK /\ ConfirmedSurvives

\* What a step comes down to for a reader of the log.
Stutters == UNCHANGED <<Stored, confirmed>>
Stores == \E w \in Write : /\ w \notin Stored /\ Stored' = Stored \cup {w} /\ confirmed' = confirmed
Confirms == \E w \in Stored : confirmed' = confirmed \cup {w} /\ Stored' = Stored
LogStep == Stutters \/ Stores \/ Confirms
-----------------------------------------------------------------------------
\* Nothing is stored or asked for at the start.
LEMMA StoreInitInv == StoreInit => StoreInv
<1> SUFFICES ASSUME StoreInit PROVE StoreInv OBVIOUS
<1>0. recovered \in BOOLEAN BY DEF StoreInit
<1>1. StoreTypeOK BY <1>0, StoreAssumption DEF StoreInit, StoreTypeOK, IsFile
<1>2. RewriteOK BY DEF StoreInit, RewriteOK
<1>3. ConfirmedSurvives BY DEF StoreInit, ConfirmedSurvives
<1> QED BY <1>1, <1>2, <1>3 DEF StoreInv

\* What is stored is a set of mutations, and no such set is a missing file.
LEMMA StoredIsFile ==
    ASSUME StoreTypeOK
    PROVE  /\ Stored \subseteq Write
           /\ \A S \in SUBSET Write : S # Missing /\ Content(S) = S
           /\ Content(Missing) = {}
<1>1. \A S \in SUBSET Write : S # Missing /\ Content(S) = S BY StoreAssumption DEF Content
<1>2. Content(Missing) = {} BY DEF Content
<1>3. Stored \subseteq Write BY DEF Stored, Content, StoreTypeOK, IsFile
<1> QED BY <1>1, <1>2, <1>3

\* A step that changes neither the store nor its backup.
LEMMA FilesStay ==
    ASSUME UNCHANGED <<storeFile, backupFile>>
    PROVE  Stored' = Stored
BY DEF Stored, Content

\* A mutation is asked for.
LEMMA MutateInv ==
    ASSUME StoreInv, NEW w \in Write, Mutate(w)
    PROVE  StoreInv' /\ LogStep
<1>1. Stored' = Stored BY FilesStay DEF Mutate, storeFiles
<1>2. UNCHANGED <<storeFiles, recovered, writing, storeStep, confirmed, storeFaults>>
      /\ asked' = asked \cup {w}
  BY DEF Mutate
<1>3. StoreTypeOK' BY <1>2 DEF StoreInv, StoreTypeOK, storeFiles, IsFile
<1>4. RewriteOK' BY <1>1, <1>2 DEF StoreInv, RewriteOK, storeFiles
<1>5. ConfirmedSurvives' BY <1>1, <1>2 DEF StoreInv, ConfirmedSurvives
<1> QED BY <1>1, <1>2, <1>3, <1>4, <1>5 DEF StoreInv, LogStep, Stutters

\* The recovery puts the stored content under the name of the store, and the
\* temporary file is it with the mutation.
LEMMA WriteTempInv ==
    ASSUME StoreInv, NEW w \in Write, WriteTemp(w)
    PROVE  StoreInv' /\ LogStep
<1> USE DEF StoreInv
<1>1. /\ storeStep = "idle" /\ storeStep' = "temp" /\ writing' = w /\ recovered' = TRUE
      /\ tempFile' = Content(storeFile') \cup {w}
      /\ UNCHANGED <<asked, confirmed, storeFaults>>
  BY DEF WriteTemp, RecoverTempFile
<1>2. CASE recovered \/ storeFile # Missing \/ backupFile = Missing
  <2>1. UNCHANGED <<storeFile, backupFile>> BY <1>2 DEF WriteTemp, RecoverTempFile
  <2>2. storeFile # Missing \/ backupFile = Missing BY <1>1, <1>2 DEF RewriteOK
  <2>3. Stored' = Stored BY <2>1, FilesStay
  <2>4. Content(storeFile') = Stored BY <2>1, <2>2 DEF Stored, Content
  <2>5. StoreTypeOK'
    BY <1>1, <2>1, <2>4, StoredIsFile DEF StoreTypeOK, IsFile
  <2>6. RewriteOK' BY <1>1, <2>1, <2>2, <2>3, <2>4 DEF RewriteOK
  <2> QED BY <1>1, <2>3, <2>5, <2>6 DEF ConfirmedSurvives, LogStep, Stutters
<1>3. CASE ~(recovered \/ storeFile # Missing \/ backupFile = Missing)
  <2>1. storeFile' = backupFile /\ backupFile' = Missing
    BY <1>3 DEF WriteTemp, RecoverTempFile
  <2>2. Stored' = Stored /\ Content(storeFile') = Stored BY <1>3, <2>1 DEF Stored, Content
  <2>3. StoreTypeOK'
    BY <1>1, <2>1, <2>2, StoredIsFile DEF StoreTypeOK, IsFile
  <2>4. RewriteOK' BY <1>1, <1>3, <2>1, <2>2 DEF RewriteOK
  <2> QED BY <1>1, <2>2, <2>3, <2>4 DEF ConfirmedSurvives, LogStep, Stutters
<1> QED BY <1>2, <1>3

\* The temporary file takes the place of the store: the mutation is stored.
LEMMA ReplaceInv ==
    ASSUME StoreInv, RenameOver \/ Replace
    PROVE  StoreInv' /\ LogStep
<1> USE DEF StoreInv
<1>1. /\ storeStep \in {"temp", "kept"} /\ storeStep' \in {"done", "replaced"}
      /\ storeFile' = tempFile
      /\ UNCHANGED <<backupFile, tempFile, recovered, asked, writing, confirmed, storeFaults>>
  BY DEF RenameOver, Replace
<1>2. writing \in Write /\ tempFile = Stored \cup {writing} /\ recovered
  BY <1>1 DEF StoreTypeOK, RewriteOK
<1>3. tempFile \in SUBSET Write /\ tempFile # Missing BY <1>2, StoredIsFile
<1>4. Stored' = Stored \cup {writing} BY <1>1, <1>2, <1>3 DEF Stored, Content
<1>5. StoreTypeOK' BY <1>1, <1>3 DEF StoreTypeOK, IsFile
<1>6. RewriteOK' BY <1>1, <1>2, <1>3 DEF RewriteOK
<1>7. ConfirmedSurvives' BY <1>1, <1>4 DEF ConfirmedSurvives
<1>8. LogStep
  <2>1. CASE writing \in Stored
    <3>1. Stored' = Stored BY <1>4, <2>1
    <3> QED BY <1>1, <3>1 DEF LogStep, Stutters
  <2>2. CASE writing \notin Stored BY <1>1, <1>2, <1>4, <2>2 DEF LogStep, Stores
  <2> QED BY <2>1, <2>2
<1> QED BY <1>5, <1>6, <1>7, <1>8

\* The old backup goes only while the store is there, and the store becomes the
\* backup in one step.
LEMMA KeepBackupInv ==
    ASSUME StoreInv, DropBackup \/ KeepBackup \/ RemoveBackup
    PROVE  StoreInv' /\ LogStep
<1> USE DEF StoreInv
<1>1. UNCHANGED <<tempFile, recovered, asked, writing, confirmed, storeFaults>>
  BY DEF DropBackup, KeepBackup, RemoveBackup
<1>2. CASE DropBackup
  <2>1. /\ storeStep = "temp" /\ storeStep' = "dropped"
        /\ backupFile' = Missing /\ storeFile' = storeFile
    BY <1>2 DEF DropBackup
  <2>2. storeFile # Missing \/ backupFile = Missing BY <2>1 DEF RewriteOK
  <2>3. Stored' = Stored BY <2>1, <2>2 DEF Stored, Content
  <2>4. StoreTypeOK' BY <1>1, <2>1 DEF StoreTypeOK, IsFile
  <2>5. RewriteOK' BY <1>1, <2>1, <2>3 DEF RewriteOK
  <2> QED BY <1>1, <2>3, <2>4, <2>5 DEF ConfirmedSurvives, LogStep, Stutters
<1>3. CASE KeepBackup
  <2>1. storeStep = "dropped" /\ storeStep' = "kept" /\ backupFile = Missing
    BY <1>3 DEF KeepBackup, RewriteOK
  <2>2. storeFile' = Missing /\ backupFile' = storeFile
    BY <1>3, <2>1 DEF KeepBackup
  <2>3. Stored' = Stored BY <2>1, <2>2 DEF Stored, Content
  <2>4. StoreTypeOK' BY <1>1, <2>1, <2>2 DEF StoreTypeOK, IsFile
  <2>5. RewriteOK' BY <1>1, <2>1, <2>2, <2>3 DEF RewriteOK
  <2> QED BY <1>1, <2>3, <2>4, <2>5 DEF ConfirmedSurvives, LogStep, Stutters
<1>4. CASE RemoveBackup
  <2>1. /\ storeStep = "replaced" /\ storeStep' = "done"
        /\ backupFile' = Missing /\ storeFile' = storeFile
    BY <1>4 DEF RemoveBackup
  <2>2. storeFile # Missing BY <2>1 DEF RewriteOK
  <2>3. Stored' = Stored BY <2>1, <2>2 DEF Stored, Content
  <2>4. StoreTypeOK' BY <1>1, <2>1 DEF StoreTypeOK, IsFile
  <2>5. RewriteOK' BY <1>1, <2>1, <2>2 DEF RewriteOK
  <2> QED BY <1>1, <2>3, <2>4, <2>5 DEF ConfirmedSurvives, LogStep, Stutters
<1> QED BY <1>2, <1>3, <1>4

\* A mutation is over: confirmed, failed, or cut off by a crash.
LEMMA RestInv ==
    ASSUME StoreInv, Confirmed \/ WriteFails \/ StoreCrash
    PROVE  StoreInv' /\ LogStep
<1> USE DEF StoreInv
<1>1. UNCHANGED <<storeFile, backupFile>> /\ Rest
  BY DEF Confirmed, WriteFails, StoreCrash
<1>2. Stored' = Stored BY <1>1, FilesStay
<1>3. writing' = Missing /\ tempFile' = Missing /\ storeStep' = "idle" BY <1>1 DEF Rest
<1>4. recovered' \in BOOLEAN /\ asked' \subseteq Write /\ (recovered' => recovered)
  <2>1. recovered' = FALSE \/ recovered' = recovered BY DEF Confirmed, WriteFails, StoreCrash
  <2>2. recovered \in BOOLEAN BY DEF StoreTypeOK
  <2>3. asked' \subseteq asked BY DEF Confirmed, WriteFails, StoreCrash
  <2>4. asked' \subseteq Write BY <2>3 DEF StoreTypeOK
  <2>5. recovered' \in BOOLEAN /\ (recovered' => recovered)
    <3>1. CASE recovered' = FALSE BY <3>1
    <3>2. CASE recovered' = recovered BY <2>2, <3>2
    <3> QED BY <2>1, <3>1, <3>2
  <2> QED BY <2>4, <2>5
<1>5. storeFaults' \in 0..MaxStoreFaults
  BY StoreAssumption DEF Confirmed, WriteFails, StoreCrash, StoreFault, StoreTypeOK
<1>6. recovered' => storeFile # Missing \/ backupFile = Missing
  <2>1. CASE Confirmed BY <2>1 DEF Confirmed, RewriteOK
  <2>2. CASE WriteFails BY <2>2 DEF WriteFails, RewriteOK
  <2>3. CASE StoreCrash BY <2>3 DEF StoreCrash
  <2> QED BY <2>1, <2>2, <2>3
<1>7. RewriteOK' BY <1>1, <1>3, <1>6 DEF RewriteOK
<1>8. CASE Confirmed
  <2>1. storeStep = "done" /\ confirmed' = confirmed \cup {writing} BY <1>8 DEF Confirmed
  <2>2. writing \in Stored /\ writing \in Write
    BY <2>1 DEF RewriteOK, Stored, Content, StoreTypeOK
  <2>3. StoreTypeOK'
    <3>1. confirmed' \subseteq Write BY <2>1, <2>2 DEF StoreTypeOK
    <3>2. IsFile(storeFile)' /\ IsFile(backupFile)' /\ IsFile(tempFile)'
      BY <1>1, <1>3 DEF StoreTypeOK, IsFile
    <3> QED BY <1>3, <1>4, <1>5, <3>1, <3>2 DEF StoreTypeOK
  <2>4. ConfirmedSurvives' BY <1>2, <2>1, <2>2 DEF ConfirmedSurvives
  <2>5. Confirms BY <1>2, <2>1, <2>2 DEF Confirms
  <2> QED BY <1>7, <2>3, <2>4, <2>5 DEF LogStep
<1>9. CASE WriteFails \/ StoreCrash
  <2>1. confirmed' = confirmed BY <1>9 DEF WriteFails, StoreCrash
  <2>2. StoreTypeOK' BY <1>1, <1>3, <1>4, <1>5, <2>1 DEF StoreTypeOK, IsFile
  <2>3. ConfirmedSurvives' BY <1>2, <2>1 DEF ConfirmedSurvives
  <2> QED BY <1>2, <1>7, <2>1, <2>2, <2>3 DEF LogStep, Stutters
<1> QED BY <1>8, <1>9

\* Every step keeps the invariant and is a step of the log or none.
LEMMA StoreStepInv ==
    ASSUME StoreInv, [StoreNext]_storeVars
    PROVE  StoreInv' /\ LogStep
<1>1. CASE UNCHANGED storeVars
  <2>1. UNCHANGED <<storeFile, backupFile, tempFile, recovered, asked, writing, storeStep,
                    confirmed, storeFaults>>
    BY <1>1 DEF storeVars, storeFiles
  <2>2. Stored' = Stored BY <2>1, FilesStay
  <2>3. StoreTypeOK' BY <2>1 DEF StoreInv, StoreTypeOK, IsFile
  <2>4. RewriteOK' BY <2>1, <2>2 DEF StoreInv, RewriteOK
  <2> QED BY <2>1, <2>2, <2>3, <2>4 DEF StoreInv, ConfirmedSurvives, LogStep, Stutters
<1> QED BY <1>1, MutateInv, WriteTempInv, ReplaceInv, KeepBackupInv, RestInv DEF StoreNext

\* A write that was confirmed is found by every process that starts later:
\* ConfirmedSurvives at every instant, for any number of mutations and crashes.
THEOREM StoreIsDurable == StoreSpec => []ConfirmedSurvives
<1>1. StoreInv /\ [StoreNext]_storeVars => StoreInv' BY StoreStepInv
<1>2. StoreInv => ConfirmedSurvives BY DEF StoreInv
<1> QED BY <1>1, <1>2, StoreInitInv, PTL DEF StoreSpec

\* The files are whole or missing, and a rewrite knows what it writes: StoreTypeOK.
THEOREM StoreTyping == StoreSpec => []StoreTypeOK
<1>1. StoreInv /\ [StoreNext]_storeVars => StoreInv' BY StoreStepInv
<1>2. StoreInv => StoreTypeOK BY DEF StoreInv
<1> QED BY <1>1, <1>2, StoreInitInv, PTL DEF StoreSpec

\* The rewrite of the store file implements a log that stores one write at a
\* time and confirms what it has stored: ImplementsDurableLog.
THEOREM StoreImplementsLog == StoreSpec => ImplementsDurableLog
<1>1. StoreInit => Log!Init BY DEF StoreInit, Log!Init, Stored, Content
<1>2. StoreInv /\ [StoreNext]_storeVars => StoreInv' BY StoreStepInv
<1>3. StoreInv /\ [StoreNext]_storeVars => [Log!Next]_Log!vars
  <2> SUFFICES ASSUME StoreInv, [StoreNext]_storeVars PROVE [Log!Next]_Log!vars OBVIOUS
  <2>1. LogStep BY StoreStepInv
  <2>2. CASE Stutters BY <2>2 DEF Stutters, Log!vars
  <2>3. CASE Stores
    <3>1. PICK w \in Write : w \notin Stored /\ Stored' = Stored \cup {w} /\ confirmed' = confirmed
      BY <2>3 DEF Stores
    <3>2. w \in Stored' \ Stored BY <3>1
    <3>3. Log!Store(w) BY <3>1 DEF Log!Store
    <3> QED BY <3>2, <3>3 DEF Log!Next
  <2>4. CASE Confirms
    <3>1. PICK w \in Stored : confirmed' = confirmed \cup {w} /\ Stored' = Stored
      BY <2>4 DEF Confirms
    <3>2. Log!Confirm(w) BY <3>1 DEF Log!Confirm
    <3> QED BY <3>2 DEF Log!Next
  <2> QED BY <2>1, <2>2, <2>3, <2>4 DEF LogStep
<1> QED BY <1>1, <1>2, <1>3, StoreInitInv, PTL DEF StoreSpec, ImplementsDurableLog, Log!Spec
=============================================================================
