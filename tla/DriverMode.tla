----------------------------- MODULE DriverMode -----------------------------
(***************************************************************************)
(* The driver's page of the web application (apps/web/src/modules/driver)  *)
(* before the central visits of TransactionLifecycle.  The page shows the  *)
(* rows of one visit as it last heard of them, asks for them again from    *)
(* time to time on some screens, and sends the requests of its buttons,    *)
(* which the handlers of the API serve.  Answers may be slow, overtake     *)
(* each other, or be lost; the page may be left, reloaded and mounted      *)
(* again.                                                                  *)
(*                                                                         *)
(* The language and the weighbridge are chosen, the vehicle is typed in.   *)
(* Voice, sounds, live weights and the banner of the connection are left   *)
(* out.                                                                    *)
(***************************************************************************)
EXTENDS TransactionLifecycle, Sequences

CONSTANTS
    MaxPolls,    \* bound on the readings of the visit that are on their way
    MaxLosses    \* bound on lost answers and reloads

ASSUME DriverAssumption == MaxPolls \in Nat \ {0} /\ MaxLosses \in Nat

VARIABLES
    page,        \* the visit on the page, its rows, whether its document was skipped
    known,       \* context.openTransactions, read when the page was mounted
    session,     \* the visit named in sessionStorage
    call,        \* what run awaits while the page is busy
    polls,       \* readings of a visit, on their way there or back
    losses

driverVars == <<page, known, session, call, polls, losses>>

Closed  == [open |-> FALSE, visit |-> None, rows |-> NoVisit, skipped |-> FALSE]
Nothing == [step |-> "idle"]

Reading(v) == [visit |-> v, rows |-> NoVisit, orphan |-> FALSE]

DriverInit ==
    /\ Init
    /\ page = Closed /\ known = {} /\ session = None
    /\ call = Nothing /\ polls = {} /\ losses = 0

-----------------------------------------------------------------------------
(* The screen                                                              *)

ScreenFromNextAction ==
    [identify |-> "VEHICLE", upload_document |-> "DOCUMENT", assign_material |-> "MATERIAL",
     record_gross |-> "FIRST_WEIGHMENT", await_approval |-> "APPROVAL",
     assign_unloading |-> "UNLOADING", start_unloading |-> "UNLOADING",
     complete_unloading |-> "UNLOADING_PROGRESS", record_tare |-> "SECOND_WEIGHMENT",
     finalize |-> "SECOND_WEIGHMENT", completed |-> "COMPLETED"]

ScreenFromStatus ==
    [ARRIVED |-> "VEHICLE", IDENTIFIED |-> "DOCUMENT", DOCUMENT_PENDING |-> "DOCUMENT",
     DOCUMENT_VERIFIED |-> "MATERIAL", MATERIAL_CLASSIFIED |-> "MATERIAL",
     FIRST_WEIGHMENT |-> "FIRST_WEIGHMENT", PENDING_APPROVAL |-> "APPROVAL",
     APPROVED |-> "UNLOADING", UNLOADING |-> "UNLOADING_PROGRESS",
     UNLOADED |-> "SECOND_WEIGHMENT", SECOND_WEIGHMENT |-> "SECOND_WEIGHMENT"]

Code == NextAction(page.rows)

\* nextAction.blocking: a visit without a workflow may be weighed at once.
Blocking == page.rows.workflow # None \/ page.rows.status # "IDENTIFIED"

IsException ==
    page.rows.status \in {"EXCEPTION", "REJECTED"} \/ Code \in {"blocked", "review_exception"}

\* resolveDriverScreen.
Screen ==
    IF page.visit = None THEN "VEHICLE"
    ELSE IF IsException THEN "EXCEPTION"
    ELSE IF page.skipped /\ Code = "upload_document" /\ ~Blocking THEN "FIRST_WEIGHMENT"
    ELSE IF Code = "continue" THEN ScreenFromStatus[page.rows.status]
    ELSE ScreenFromNextAction[Code]

-----------------------------------------------------------------------------
(* Readings                                                                *)

Shows(v, rows) ==
    /\ page' = [page EXCEPT !.visit = v, !.rows = rows]
    /\ session' = v

Asks(v) == Cardinality(polls \cup {Reading(v)}) <= MaxPolls /\ polls' = polls \cup {Reading(v)}

\* A mutant of Polled: the driver is left alone with an approval.
PolledWhenBusy == {"DOCUMENT", "UNLOADING"}

Polled == {"APPROVAL", "DOCUMENT", "UNLOADING"}

\* The timer of the page.
Poll ==
    /\ page.open /\ page.visit # None /\ Screen \in Polled
    /\ Reading(page.visit) \notin polls
    /\ Asks(page.visit)
    /\ UNCHANGED <<vars, page, known, session, call, losses>>

\* getTransaction, which sees to the approval that is due before it reads (in
\* one step here: the operation "ensure" has its races).
GetTransaction(v) == visit' = [visit EXCEPT ![v] = WithRequiredApproval(@, @)]

ServePoll(p) ==
    /\ p.rows = NoVisit
    /\ GetTransaction(p.visit)
    /\ polls' = (polls \ {p}) \cup {[p EXCEPT !.rows = visit'[p.visit]]}
    /\ UNCHANGED <<point, callVars, page, known, session, call, losses>>

\* refreshTransaction, whatever the page shows by now; what comes for a page
\* that was left still writes the name of the visit.
AnswerPoll(p) ==
    /\ p.rows # NoVisit
    /\ IF p.orphan THEN session' = p.visit /\ UNCHANGED page ELSE Shows(p.visit, p.rows)
    /\ polls' = polls \ {p}
    /\ UNCHANGED <<vars, known, call, losses>>

Loss == losses < MaxLosses /\ losses' = losses + 1

LosePoll(p) ==
    /\ Loss
    /\ polls' = polls \ {p}
    /\ UNCHANGED <<vars, page, known, session, call>>

-----------------------------------------------------------------------------
(* Mounting and leaving                                                    *)

IsOpen(v) == visit[v].status \notin {"ABSENT", "COMPLETED", "REJECTED"}

\* The page reads the open visits and resumes the one of the session, or
\* else one of them.  It is not mounted again while the last one awaits an
\* answer (a bound).
Mount ==
    /\ ~page.open /\ call = Nothing
    /\ page' = [Closed EXCEPT !.open = TRUE]
    /\ known' = {v \in Visit : IsOpen(v)}
    /\ IF session # None THEN Asks(session)
       ELSE IF known' = {} THEN UNCHANGED polls
       ELSE \E v \in known' : Asks(v)
    /\ UNCHANGED <<vars, session, call, losses>>

Leaves == page.open /\ page' = Closed /\ polls' = {[p EXCEPT !.orphan = TRUE] : p \in polls}

\* The link out of driver mode, which is open at any time.
Exit ==
    /\ Leaves
    /\ UNCHANGED <<vars, known, session, call, losses>>

\* The button of the last screen.
Done ==
    /\ Leaves /\ Screen = "COMPLETED"
    /\ session' = None
    /\ UNCHANGED <<vars, known, call, losses>>

\* The browser forgets all but the session; a request goes on without it.
Reload ==
    /\ page.open /\ Loss
    /\ page' = Closed /\ polls' = {} /\ call' = Nothing
    /\ UNCHANGED <<vars, known, session>>

-----------------------------------------------------------------------------
(* Buttons                                                                 *)

Sends(v, requests) ==
    /\ page.open /\ call = Nothing
    /\ call' = [step |-> "sent", visit |-> v, todo |-> requests]
    /\ UNCHANGED <<vars, page, known, session, polls, losses>>

\* registerOrLookup, unless it asks about a visit that was open at first.
Register == Screen = "VEHICLE" /\ (page.visit # None \/ known = {}) /\ Sends(None, <<<<"create", None>>>>)

ContinueOpen(v) ==
    /\ page.open /\ Screen = "VEHICLE" /\ page.visit = None /\ v \in known
    /\ Asks(v)
    /\ UNCHANGED <<vars, page, known, session, call, losses>>

\* uploadDocument, while the page knows of no document.
Scan ==
    /\ Screen = "DOCUMENT" /\ Blank(page.rows)
    /\ Sends(page.visit, <<<<"upload", None>>, <<"process", None>>, <<"read", None>>>>)

Skip ==
    /\ page.open /\ call = Nothing /\ Screen = "DOCUMENT" /\ ~Blocking
    /\ page' = [page EXCEPT !.skipped = TRUE]
    /\ UNCHANGED <<vars, known, session, call, polls, losses>>

\* handlePrimary: the request that a screen sends, with the material that was
\* read from the document and the point the API finds.
Primary ==
    CASE Screen = "MATERIAL" /\ Code = "assign_material" -> {<<"assignMaterial", m>> : m \in Material}
      [] Screen = "FIRST_WEIGHMENT" -> {<<"weighGross", None>>}
      [] Screen = "UNLOADING" /\ Code = "assign_unloading" -> {<<"assignPoint", p>> : p \in Point}
      [] Screen = "UNLOADING" /\ Code # "assign_unloading" -> {<<"start", None>>}
      [] Screen = "UNLOADING_PROGRESS" -> {<<"complete", None>>}
      [] Screen = "SECOND_WEIGHMENT" /\ Code = "record_tare" -> {<<"weighTare", None>>}
      [] Screen = "SECOND_WEIGHMENT" /\ Code # "record_tare" -> {<<"finalize", None>>}
      [] OTHER -> {}

HandlePrimary == \E request \in Primary : Sends(page.visit, <<request>>)

\* The retry of the exception screen.
RetryException ==
    /\ page.open /\ Screen = "EXCEPTION" /\ Asks(page.visit)
    /\ UNCHANGED <<vars, page, known, session, call, losses>>

-----------------------------------------------------------------------------
(* The requests of the page at the API                                     *)

Asked(o) == call.step = "sent" /\ call.todo[1][1] = o

\* createArrival creates the visit first and identifies it in a transaction
\* of its own.
CreateArrival(v) ==
    /\ Asked("create") /\ CreateTransaction(v)
    /\ call' = [call EXCEPT !.visit = v, !.todo = <<<<"identify", None>>>>]
    /\ UNCHANGED <<page, known, session, polls, losses>>

LoadRequest(h) ==
    /\ call.step = "sent" /\ call.todo[1][1] \in Operations
    /\ Load(h, call.visit, call.todo[1][1], call.todo[1][2])
    /\ call' = [step |-> "served", visit |-> call.visit, todo |-> call.todo, handler |-> h]
    /\ UNCHANGED <<page, known, session, polls, losses>>

\* The rules refuse it, or the weighbridge takes no visit.
Refuse ==
    /\ call.step = "sent" /\ call.todo[1][1] # "read"
    /\ call.visit # None => ~Accepts(call.todo[1][1], visit[call.visit], call.todo[1][2])
    /\ call' = Nothing
    /\ UNCHANGED <<vars, page, known, session, polls, losses>>

\* The next request, about the document that was uploaded, or the answer.
Proceeds ==
    LET new == {d \in Document : visit'[call.visit].documents[d] # visit[call.visit].documents[d]}
    IN  IF Len(call.todo) = 1
        THEN call' = [step |-> "answered", visit |-> call.visit, rows |-> visit'[call.visit]]
        ELSE \E d \in IF call.todo[2][1] = "process" THEN new ELSE {None} :
                call' = [step |-> "sent", visit |-> call.visit,
                         todo |-> <<<<call.todo[2][1], d>>>> \o SubSeq(call.todo, 3, Len(call.todo))]

ServeRequest(h) ==
    /\ call.step = "served" /\ call.handler = h
    /\ \/ (CheckPoint(h) \/ Commit(h)) /\ stage'[h] # "idle" /\ UNCHANGED call
       \/ stage[h] = "ready" /\ Commit(h) /\ stage'[h] = "idle" /\ Proceeds
       \/ stage[h] = "extracted" /\ Rollback(h) /\ Proceeds
       \/ stage[h] # "extracted" /\ Rollback(h) /\ call' = Nothing
       \/ FailExtraction(h) /\ call' = Nothing
    /\ UNCHANGED <<page, known, session, polls, losses>>

ReadAgain ==
    /\ Asked("read") /\ GetTransaction(call.visit)
    /\ Proceeds
    /\ UNCHANGED <<point, callVars, page, known, session, polls, losses>>

\* attachTransaction; a page that was left only writes the session.
Answer ==
    /\ call.step = "answered"
    /\ IF page.open THEN Shows(call.visit, call.rows) ELSE session' = call.visit /\ UNCHANGED page
    /\ call' = Nothing
    /\ UNCHANGED <<vars, known, polls, losses>>

LoseAnswer ==
    /\ call.step = "answered" /\ Loss
    /\ call' = Nothing
    /\ UNCHANGED <<vars, page, known, session, polls>>

\* Everybody else.
Office ==
    /\ Next
    /\ call.step = "served" => stage'[call.handler] = stage[call.handler]
    /\ UNCHANGED driverVars

-----------------------------------------------------------------------------

ReadingNext ==
    \/ Poll
    \/ \E p \in polls : ServePoll(p) \/ AnswerPoll(p) \/ LosePoll(p)
    \/ Mount \/ Exit \/ Done \/ Reload

ButtonNext ==
    \/ Register \/ Scan \/ Skip \/ HandlePrimary \/ RetryException
    \/ \E v \in Visit : ContinueOpen(v)

RequestNext ==
    \/ \E v \in Visit : CreateArrival(v)
    \/ \E h \in Handler : LoadRequest(h) \/ ServeRequest(h)
    \/ Refuse \/ ReadAgain \/ Answer \/ LoseAnswer

DriverNext == ReadingNext \/ ButtonNext \/ RequestNext \/ Office

\* The timer of the page fires, and what it asks is answered.
DriverFairness ==
    /\ WF_<<vars, driverVars>>(Poll)
    /\ WF_<<vars, driverVars>>(\E p \in polls : ServePoll(p))
    /\ WF_<<vars, driverVars>>(\E p \in polls : AnswerPoll(p))

DriverSpec == DriverInit /\ [][DriverNext]_<<vars, driverVars>> /\ DriverFairness

-----------------------------------------------------------------------------
(* Properties                                                              *)

\* The screens on which the driver waits for somebody of the office.
Behind ==
    /\ page.visit # None /\ Screen \in {"APPROVAL", "DOCUMENT"}
    /\ NextAction(page.rows) # NextAction(visit[page.visit])

\* docs/driver-mode.md: documents and approvals wait for the responsible
\* officer.  The page learns of the decision, also when answers overtake
\* each other and an old one brings the screen back.
DriverSeesDecision == Behind ~> ~Behind
=============================================================================
