------------------------ MODULE TransactionLifecycle ------------------------
(***************************************************************************)
(* The visits of the central system from arrival to finalization           *)
(* (apps/api/src/modules/transactions, approvals, documents), with their   *)
(* documents, material, weighments, approval rows and unloading points.    *)
(*                                                                         *)
(* A request handler is a database transaction at READ COMMITTED: it loads *)
(* the rows of a visit, checks them against the workflow rules             *)
(* (domain/workflowEngine.ts), may read other rows, and commits.  The rows *)
(* it has loaded are its copy: every check is made on the copy, while the  *)
(* writes go to the rows as they are by then.  A call that is refused when *)
(* it loads changes nothing and is no step here.                           *)
(***************************************************************************)
EXTENDS Naturals, FiniteSets

CONSTANTS
    Visit,       \* central transactions
    Document,    \* documents of a visit
    Material,
    Point,       \* unloading points of the site
    Handler,     \* requests the API may be working on at once
    Workflow,    \* the workflow of each material
    AllowedAt,   \* the materials each point accepts
    None

Stages    == UNION {Workflow[m].stages : m \in Material}
Decisions == {"PENDING", "APPROVED", "REJECTED"}

\* A workflow says whether documents are required, which approval stages
\* there are (by sortOrder) and whether a light load needs none of them.
ASSUME WorkflowAssumption ==
    /\ Workflow \in [Material -> [documents : BOOLEAN, stages : SUBSET Nat, autoContinue : BOOLEAN]]
    /\ \A m \in Material : IsFiniteSet(Workflow[m].stages)
    /\ AllowedAt \in [Point -> SUBSET Material]
    /\ None \notin Visit \cup Material \cup Point \cup Document \cup Nat
    /\ None \notin {"light", "heavy", "ok", "over", "NOT_STARTED", "IN_PROGRESS", "COMPLETED"}

VARIABLES
    visit,       \* the rows of each visit
    point,       \* UnloadingPoint.status
    op, stage,   \* what each handler does, and how far it is
    on, arg,     \* the visit it is about, and the parameter of the request
    seen         \* the rows it has loaded

callVars == <<op, stage, on, arg, seen>>
vars == <<visit, point, callVars>>

Statuses == {"ARRIVED", "IDENTIFIED", "DOCUMENT_PENDING", "DOCUMENT_VERIFIED", "MATERIAL_CLASSIFIED",
             "FIRST_WEIGHMENT", "PENDING_APPROVAL", "APPROVED", "UNLOADING", "UNLOADED",
             "SECOND_WEIGHMENT", "COMPLETED", "REJECTED", "EXCEPTION"}
DocumentStatus == {"UPLOADED", "PROCESSING", "EXTRACTED", "VERIFIED", "REJECTED"}
PointStatus    == {"AVAILABLE", "OCCUPIED", "INACTIVE"}
Active         == {"NOT_STARTED", "IN_PROGRESS"}

Operations ==
    {"identify", "upload", "process", "verifyDocument", "rejectDocument", "assignMaterial",
     "verifyMaterial", "weighGross", "ensure", "approve", "reject", "assignPoint", "start",
     "complete", "weighTare", "finalize"}

\* The rows of a visit that has not been created.
NoVisit ==
    [status |-> "ABSENT", documents |-> [d \in Document |-> "ABSENT"],
     material |-> None, workflow |-> None, gross |-> None, tare |-> None,
     approvals |-> {}, place |-> None, unloading |-> None]

\* The table of domain/transactionState.ts, without the statuses no handler
\* ever sets (ON_HOLD, CANCELLED).
Successors ==
    [ARRIVED             |-> {"IDENTIFIED", "EXCEPTION"},
     IDENTIFIED          |-> {"FIRST_WEIGHMENT", "DOCUMENT_PENDING", "MATERIAL_CLASSIFIED"},
     DOCUMENT_PENDING    |-> {"DOCUMENT_VERIFIED", "REJECTED"},
     DOCUMENT_VERIFIED   |-> {"FIRST_WEIGHMENT", "MATERIAL_CLASSIFIED"},
     MATERIAL_CLASSIFIED |-> {"FIRST_WEIGHMENT"},
     FIRST_WEIGHMENT     |-> {"PENDING_APPROVAL", "UNLOADING", "EXCEPTION"},
     PENDING_APPROVAL    |-> {"APPROVED", "REJECTED"},
     APPROVED            |-> {"UNLOADING", "EXCEPTION"},
     UNLOADING           |-> {"UNLOADED", "EXCEPTION"},
     UNLOADED            |-> {"SECOND_WEIGHMENT", "EXCEPTION"},
     SECOND_WEIGHMENT    |-> {"COMPLETED", "EXCEPTION"},
     COMPLETED           |-> {},
     REJECTED            |-> {},
     EXCEPTION           |-> {}]

CanTransition(from, to) == to \in Successors[from]

-----------------------------------------------------------------------------
(* The workflow rules, on the rows r of a visit                            *)

\* assertTransactionMutable.  That a vehicle is known needs no field: the write
\* that takes a visit out of ARRIVED sets it, and nothing clears it.
Mutable(r) == r.status # "COMPLETED"

Decided(r, decision) == {s \in Stages : <<s, decision>> \in r.approvals}
IsRejected(r) == Decided(r, "REJECTED") # {}

\* remainingApprovalSteps, with resolveApprovalRequirement.
Remaining(r) ==
    IF r.workflow = None \/ (Workflow[r.workflow].autoContinue /\ r.gross = "light") THEN {}
    ELSE Workflow[r.workflow].stages \ Decided(r, "APPROVED")

First(S) == CHOOSE s \in S : \A t \in S : s <= t

DocumentsMet(m, r) ==
    Workflow[m].documents => \E d \in Document : r.documents[d] = "VERIFIED"

\* A mutant of CanAssignMaterial: a weighed visit is let through.
CanAssignAfterWeighment(r, m) ==
    /\ r.status \in {"IDENTIFIED", "DOCUMENT_VERIFIED", "MATERIAL_CLASSIFIED", "FIRST_WEIGHMENT"}
    /\ DocumentsMet(m, r)

CanAssignMaterial(r, m) ==
    /\ r.gross = None
    /\ r.status \in {"IDENTIFIED", "DOCUMENT_VERIFIED", "MATERIAL_CLASSIFIED"}
    /\ DocumentsMet(m, r)

CanRecordFirstWeighment(r) ==
    /\ r.gross = None
    /\ IF r.workflow = None
       THEN r.status \in {"IDENTIFIED", "DOCUMENT_VERIFIED"}
       ELSE DocumentsMet(r.workflow, r)
    /\ CanTransition(r.status, "FIRST_WEIGHMENT")

\* A mutant of PreUnloading: the approvals are not looked at.
PreUnloadingUnapproved(r) ==
    ~IsRejected(r) /\ r.workflow # None /\ DocumentsMet(r.workflow, r) /\ r.gross # None

PreUnloading(r) ==
    /\ ~IsRejected(r)
    /\ r.workflow # None
    /\ DocumentsMet(r.workflow, r)
    /\ r.gross # None
    /\ Remaining(r) = {}

CanAssignUnloading(r) ==
    /\ PreUnloading(r)
    /\ r.unloading \notin {"IN_PROGRESS", "COMPLETED"}
    /\ r.status \in {"APPROVED", "FIRST_WEIGHMENT"}

\* A mutant of CanStartUnloading: a visit that needs no approval is left out.
CanStartApproved(r) ==
    PreUnloading(r) /\ r.place # None /\ r.unloading = "NOT_STARTED" /\ r.status = "APPROVED"

CanStartUnloading(r) ==
    /\ PreUnloading(r)
    /\ r.place # None
    /\ r.unloading \notin {"IN_PROGRESS", "COMPLETED"}
    /\ r.status \in {"APPROVED", "FIRST_WEIGHMENT"}

CanCompleteUnloading(r) ==
    r.status = "UNLOADING" /\ r.unloading = "IN_PROGRESS" /\ r.place # None

CanRecordSecondWeighment(r) ==
    /\ r.tare = None
    /\ r.status = "UNLOADED" /\ r.unloading = "COMPLETED"
    /\ r.gross # None

CanFinalize(r) ==
    /\ r.status = "SECOND_WEIGHMENT"
    /\ r.tare = "ok"
    /\ ~IsRejected(r)
    /\ r.workflow # None
    /\ DocumentsMet(r.workflow, r)
    /\ Remaining(r) = {}
    /\ r.unloading = "COMPLETED"
    /\ r.gross # None

\* A stage can be decided while its row is PENDING and nothing is rejected.
CanDecide(r, s) ==
    <<s, "PENDING">> \in r.approvals /\ r.gross # None /\ ~IsRejected(r) /\ r.status # "REJECTED"

\* ensureRequiredApproval would write something for a visit with rows r.
MissesApproval(r) ==
    /\ ~IsRejected(r) /\ r.status # "REJECTED"
    /\ Remaining(r) # {}
    /\ <<First(Remaining(r)), "PENDING">> \notin r.approvals

\* ensureRequiredApproval for a visit whose rows are r, told that they are g:
\* the row of the next stage is created, and a visit seen at FIRST_WEIGHMENT
\* goes to PENDING_APPROVAL, unless the row was there already.
WithRequiredApproval(r, g) ==
    IF MissesApproval(g)
    THEN [r EXCEPT !.approvals = @ \cup {<<First(Remaining(g)), "PENDING">>},
                   !.status = IF g.status = "FIRST_WEIGHMENT" THEN "PENDING_APPROVAL" ELSE @]
    ELSE r

\* What comes first in a table of conditions and codes.
FirstThatHolds(table) ==
    LET i == CHOOSE i \in DOMAIN table : table[i][1] /\ \A j \in 1..(i - 1) : ~table[j][1]
    IN  table[i][2]

\* resolveNextAction, for a visit that has a workflow ...
NextStep(r) ==
    FirstThatHolds(<<
        <<r.gross = None /\ ~DocumentsMet(r.workflow, r), "upload_document">>,
        <<r.gross = None, "record_gross">>,
        <<IsRejected(r) \/ r.status = "REJECTED", "blocked">>,
        <<Remaining(r) # {}, "await_approval">>,
        <<r.status = "EXCEPTION" \/ r.tare = "over", "review_exception">>,
        <<r.place = None, "assign_unloading">>,
        <<r.unloading \notin {"IN_PROGRESS", "COMPLETED"}, "start_unloading">>,
        <<r.unloading = "IN_PROGRESS", "complete_unloading">>,
        <<r.tare = None, "record_tare">>,
        <<TRUE, "finalize">> >>)

Blank(r) == \A d \in Document : r.documents[d] = "ABSENT"

\* ... and for one that has none, and may be weighed without a document.
NextAction(r) ==
    CASE r.status = "COMPLETED" -> "completed"
      [] r.status = "ARRIVED" -> "identify"
      [] r.status \notin {"COMPLETED", "ARRIVED"} /\ r.workflow # None -> NextStep(r)
      [] OTHER -> FirstThatHolds(<<
            <<r.status = "IDENTIFIED" /\ Blank(r), "upload_document">>,
            <<r.status = "DOCUMENT_PENDING", "upload_document">>,
            <<r.status = "DOCUMENT_VERIFIED" /\ r.gross = None, "assign_material">>,
            <<r.gross = None, "record_gross">>,
            <<TRUE, "continue">> >>)

Suits(p, m) == AllowedAt[p] = {} \/ m \in AllowedAt[p]

\* What a handler checks on the rows it has loaded, by operation.
Accepts(o, r, a) ==
    \/ o = "identify" /\ a = None /\ r.status = "ARRIVED"
    \/ o = "upload" /\ a = None /\ r.status \in {"IDENTIFIED", "DOCUMENT_PENDING"}
    \/ o = "process" /\ a \in Document /\ r.documents[a] = "UPLOADED"
    \/ o = "verifyDocument" /\ a \in Document /\ r.documents[a] = "EXTRACTED" /\ r.status = "DOCUMENT_PENDING"
    \/ o = "rejectDocument" /\ a \in Document /\ r.documents[a] = "EXTRACTED"
    \/ o = "assignMaterial" /\ a \in Material /\ CanAssignMaterial(r, a)
    \/ o = "verifyMaterial" /\ a \in Material
         /\ r.workflow # None /\ r.status = "MATERIAL_CLASSIFIED" /\ r.gross = None
    \/ o = "weighGross" /\ a = None /\ Mutable(r) /\ CanRecordFirstWeighment(r)
    \/ o = "ensure" /\ a = None /\ MissesApproval(r)
    \/ o \in {"approve", "reject"} /\ a \in Stages /\ CanDecide(r, a)
    \/ o = "assignPoint" /\ a \in Point /\ Mutable(r) /\ CanAssignUnloading(r) /\ Suits(a, r.material)
    \/ o = "start" /\ a = None /\ Mutable(r) /\ CanStartUnloading(r)
    \/ o = "complete" /\ a = None /\ Mutable(r) /\ CanCompleteUnloading(r)
    \/ o = "weighTare" /\ a = None /\ Mutable(r) /\ CanRecordSecondWeighment(r)
    \/ o = "finalize" /\ a = None /\ Mutable(r) /\ CanFinalize(r)

-----------------------------------------------------------------------------

Init ==
    /\ visit = [v \in Visit |-> NoVisit]
    /\ point = [p \in Point |-> "AVAILABLE"]
    /\ op = [h \in Handler |-> None]
    /\ stage = [h \in Handler |-> "idle"]
    /\ on = [h \in Handler |-> None]
    /\ arg = [h \in Handler |-> None]
    /\ seen = [h \in Handler |-> NoVisit]

\* createTransaction.
CreateTransaction(v) ==
    /\ visit[v] = NoVisit
    /\ visit' = [visit EXCEPT ![v].status = "ARRIVED"]
    /\ UNCHANGED <<point, callVars>>

\* updateUnloadingPoint: an administrator sets any status, whoever uses the point.
UpdateUnloadingPoint(p, s) ==
    /\ point[p] # s
    /\ point' = [point EXCEPT ![p] = s]
    /\ UNCHANGED <<visit, callVars>>

\* A handler loads the rows of a visit and finds the operation allowed.
Load(h, v, o, a) ==
    /\ stage[h] = "idle"
    /\ visit[v] # NoVisit
    /\ Accepts(o, visit[v], a)
    /\ op' = [op EXCEPT ![h] = o]
    /\ on' = [on EXCEPT ![h] = v]
    /\ arg' = [arg EXCEPT ![h] = a]
    /\ seen' = [seen EXCEPT ![h] = visit[v]]
    /\ stage' = [stage EXCEPT ![h] = IF o \in {"assignPoint", "start"} THEN "loaded" ELSE "ready"]
    /\ UNCHANGED <<visit, point>>

\* A mutant of UsedByOther: a point is used while a visit unloads there.
UnloadedByOther(p, v) == \E w \in Visit \ {v} : visit[w].place = p /\ visit[w].unloading = "IN_PROGRESS"

UsedByOther(p, v) == \E w \in Visit \ {v} : visit[w].place = p /\ visit[w].unloading \in Active

PointFor(h) == IF op[h] = "assignPoint" THEN arg[h] ELSE seen[h].place

\* The reads of loadAssignablePoint and occupyPoint.
CheckPoint(h) ==
    /\ stage[h] = "loaded"
    /\ ~UsedByOther(PointFor(h), on[h])
    /\ op[h] = "assignPoint" => point[arg[h]] # "INACTIVE"
    /\ stage' = [stage EXCEPT ![h] = "ready"]
    /\ UNCHANGED <<visit, point, op, on, arg, seen>>

Ready(h, o) == stage[h] = "ready" /\ op[h] = o

Forget(h) ==
    /\ op' = [op EXCEPT ![h] = None]
    /\ stage' = [stage EXCEPT ![h] = "idle"]
    /\ on' = [on EXCEPT ![h] = None]
    /\ arg' = [arg EXCEPT ![h] = None]
    /\ seen' = [seen EXCEPT ![h] = NoVisit]

\* The transaction is rolled back: a later check refuses it, the database
\* refuses a row, or the process stops.  An extraction just ends.
Rollback(h) ==
    /\ stage[h] # "idle"
    /\ Forget(h)
    /\ UNCHANGED <<visit, point>>

Row(h) == visit[on[h]]

Writes(h, r) == visit' = [visit EXCEPT ![on[h]] = r]

Commits(h, r) == Writes(h, r) /\ Forget(h)

\* The rows are committed and the handler goes on.
GoesOn(h, r, t) ==
    /\ Writes(h, r)
    /\ stage' = [stage EXCEPT ![h] = t]
    /\ UNCHANGED <<op, on, arg, seen>>

-----------------------------------------------------------------------------
(* What each handler commits                                               *)

IdentifyTransaction(h) ==
    /\ Ready(h, "identify")
    /\ Commits(h, [Row(h) EXCEPT !.status = "IDENTIFIED"])
    /\ UNCHANGED point

\* A new document; the first one takes the visit to DOCUMENT_PENDING.
UploadDocument(h, d) ==
    /\ Ready(h, "upload")
    /\ Row(h).documents[d] = "ABSENT"
    /\ Commits(h, [Row(h) EXCEPT
          !.documents[d] = "UPLOADED",
          !.status = IF seen[h].status = "IDENTIFIED" THEN "DOCUMENT_PENDING" ELSE @])
    /\ UNCHANGED point

\* processDocument marks the document in a transaction of its own, extracts
\* its fields, and stores them in another one.  What fails after the mark, the
\* notification at the end included, makes the document UPLOADED again.  Its
\* ocrStatus is left out: it is FAILED where that has happened last.
StartExtraction(h) ==
    /\ Ready(h, "process")
    /\ GoesOn(h, [Row(h) EXCEPT !.documents[arg[h]] = "PROCESSING"], "extracting")
    /\ UNCHANGED point

StoreExtraction(h) ==
    /\ stage[h] = "extracting"
    /\ GoesOn(h, [Row(h) EXCEPT !.documents[arg[h]] = "EXTRACTED"], "extracted")
    /\ UNCHANGED point

FailExtraction(h) ==
    /\ stage[h] \in {"extracting", "extracted"}
    /\ Commits(h, [Row(h) EXCEPT !.documents[arg[h]] = "UPLOADED"])
    /\ UNCHANGED point

VerifyDocument(h) ==
    /\ Ready(h, "verifyDocument")
    /\ Commits(h, [Row(h) EXCEPT !.documents[arg[h]] = "VERIFIED", !.status = "DOCUMENT_VERIFIED"])
    /\ UNCHANGED point

RejectDocument(h) ==
    /\ Ready(h, "rejectDocument")
    /\ Commits(h, [Row(h) EXCEPT !.documents[arg[h]] = "REJECTED"])
    /\ UNCHANGED point

AssignTransactionMaterial(h) ==
    /\ Ready(h, "assignMaterial")
    /\ Commits(h, [Row(h) EXCEPT
          !.material = arg[h], !.workflow = arg[h], !.status = "MATERIAL_CLASSIFIED"])
    /\ UNCHANGED point

\* Verifying the material writes the workflow snapshot it has read back;
\* another material is assigned on the way.
VerifyTransactionMaterial(h) ==
    /\ Ready(h, "verifyMaterial")
    /\ Commits(h, [Row(h) EXCEPT
          !.workflow = arg[h],
          !.material = IF arg[h] = seen[h].workflow THEN @ ELSE arg[h]])
    /\ UNCHANGED point

\* A mutant of RecordFirstWeighment: nothing keeps a second row out.
RecordFirstWeighmentAgain(h, weight) ==
    /\ Ready(h, "weighGross")
    /\ LET r == [Row(h) EXCEPT !.gross = weight, !.status = "FIRST_WEIGHMENT"] IN
          Commits(h, WithRequiredApproval(r, r))
    /\ UNCHANGED point

\* The sequence number of the weighment is unique, the status is written
\* whatever it is by now, and the approval row of the first stage is created.
RecordFirstWeighment(h, weight) ==
    /\ Ready(h, "weighGross")
    /\ Row(h).gross = None
    /\ LET r == [Row(h) EXCEPT !.gross = weight, !.status = "FIRST_WEIGHMENT"] IN
          Commits(h, WithRequiredApproval(r, r))
    /\ UNCHANGED point

\* getTransaction and syncOpenTransactionApprovals call ensureRequiredApproval
\* with rows read before its transaction.
EnsureRequiredApproval(h) ==
    /\ Ready(h, "ensure")
    /\ <<First(Remaining(seen[h])), "PENDING">> \notin Row(h).approvals
    /\ Commits(h, WithRequiredApproval(Row(h), seen[h]))
    /\ UNCHANGED point

\* A mutant of Claimed: the new row takes the place of all the others.
ClaimedAlone(h, s, decision) == {<<s, decision>>}

\* The claim of an approval row: it is still the PENDING one that was loaded,
\* and the visit has no row with that decision for the stage.
Claim(h, s, decision) ==
    /\ <<s, "PENDING">> \in Row(h).approvals
    /\ <<s, decision>> \notin Row(h).approvals
    /\ \A d \in Decisions : <<s, d>> \in Row(h).approvals <=> <<s, d>> \in seen[h].approvals

Claimed(h, s, decision) == (Row(h).approvals \ {<<s, "PENDING">>}) \cup {<<s, decision>>}

ApproveRequest(h) ==
    /\ Ready(h, "approve")
    /\ Claim(h, arg[h], "APPROVED")
    /\ LET r == [Row(h) EXCEPT !.approvals = Claimed(h, arg[h], "APPROVED")] IN
          Commits(h, IF Remaining(r) # {} THEN WithRequiredApproval(r, r)
                     ELSE IF CanTransition(r.status, "APPROVED") THEN [r EXCEPT !.status = "APPROVED"]
                     ELSE r)
    /\ UNCHANGED point

\* The status is written if the one that was loaded allows it.
RejectRequest(h) ==
    /\ Ready(h, "reject")
    /\ Claim(h, arg[h], "REJECTED")
    /\ Commits(h, [Row(h) EXCEPT
          !.approvals = Claimed(h, arg[h], "REJECTED"),
          !.status = IF CanTransition(seen[h].status, "REJECTED") THEN "REJECTED" ELSE @])
    /\ UNCHANGED point

\* A mutant of Released: the point stays occupied.
KeptOccupied(p, v) == point

\* releasePointIfIdle for the visit v that leaves point p.
Released(p, v) ==
    IF p # None /\ ~UsedByOther(p, v) /\ point[p] = "OCCUPIED"
    THEN [point EXCEPT ![p] = "AVAILABLE"]
    ELSE point

\* The point of an earlier assignment is released, the new one is occupied.
AssignUnloading(h) ==
    /\ Ready(h, "assignPoint")
    /\ point' = [(IF seen[h].place = arg[h] THEN point ELSE Released(seen[h].place, on[h]))
                    EXCEPT ![arg[h]] = "OCCUPIED"]
    /\ Commits(h, [Row(h) EXCEPT !.place = arg[h], !.unloading = "NOT_STARTED"])

StartUnloading(h) ==
    /\ Ready(h, "start")
    /\ point' = [point EXCEPT ![seen[h].place] = "OCCUPIED"]
    /\ Commits(h, [Row(h) EXCEPT !.unloading = "IN_PROGRESS", !.status = "UNLOADING"])

\* The row is claimed with its status: it must be UNLOADING still.
CompleteUnloading(h) ==
    /\ Ready(h, "complete")
    /\ Row(h).status = "UNLOADING"
    /\ point' = Released(seen[h].place, on[h])
    /\ Commits(h, [Row(h) EXCEPT !.unloading = "COMPLETED", !.status = "UNLOADED"])

\* A mutant of RecordSecondWeighment: the visit is completed with its tare.
CompleteWithTare(h, outcome) ==
    /\ Ready(h, "weighTare")
    /\ Row(h).tare = None
    /\ Commits(h, [Row(h) EXCEPT !.tare = outcome, !.status = "COMPLETED"])
    /\ UNCHANGED point

\* A tare above the gross weight makes the visit an exception.
RecordSecondWeighment(h, outcome) ==
    /\ Ready(h, "weighTare")
    /\ Row(h).tare = None
    /\ Commits(h, [Row(h) EXCEPT
          !.tare = outcome,
          !.status = IF outcome = "ok" THEN "SECOND_WEIGHMENT" ELSE "EXCEPTION"])
    /\ UNCHANGED point

\* The row is claimed with its status: it must be SECOND_WEIGHMENT still.
FinalizeTransaction(h) ==
    /\ Ready(h, "finalize")
    /\ Row(h).status = "SECOND_WEIGHMENT"
    /\ Commits(h, [Row(h) EXCEPT !.status = "COMPLETED"])
    /\ UNCHANGED point

-----------------------------------------------------------------------------

Args == Material \cup Point \cup Document \cup Stages \cup {None}

Commit(h) ==
    \/ IdentifyTransaction(h)
    \/ \E d \in Document : UploadDocument(h, d)
    \/ StartExtraction(h)
    \/ StoreExtraction(h)
    \/ FailExtraction(h)
    \/ VerifyDocument(h)
    \/ RejectDocument(h)
    \/ AssignTransactionMaterial(h)
    \/ VerifyTransactionMaterial(h)
    \/ \E weight \in {"light", "heavy"} : RecordFirstWeighment(h, weight)
    \/ EnsureRequiredApproval(h)
    \/ ApproveRequest(h)
    \/ RejectRequest(h)
    \/ AssignUnloading(h)
    \/ StartUnloading(h)
    \/ CompleteUnloading(h)
    \/ \E outcome \in {"ok", "over"} : RecordSecondWeighment(h, outcome)
    \/ FinalizeTransaction(h)

Next ==
    \/ \E v \in Visit : CreateTransaction(v)
    \/ \E p \in Point, s \in PointStatus : UpdateUnloadingPoint(p, s)
    \/ \E h \in Handler, v \in Visit, o \in Operations, a \in Args : Load(h, v, o, a)
    \/ \E h \in Handler : CheckPoint(h) \/ Rollback(h) \/ Commit(h)

Spec == Init /\ [][Next]_vars

-----------------------------------------------------------------------------
(* Properties                                                              *)

Rows ==
    [status : Statuses \cup {"ABSENT"}, documents : [Document -> DocumentStatus \cup {"ABSENT"}],
     material : Material \cup {None}, workflow : Material \cup {None},
     gross : {"light", "heavy", None}, tare : {"ok", "over", None},
     approvals : SUBSET (Stages \X Decisions),
     place : Point \cup {None}, unloading : Active \cup {"COMPLETED", None}]

\* Every variable stays in its domain, and a handler that is at work has a
\* visit and an operation.
TypeOK ==
    /\ visit \in [Visit -> Rows]
    /\ point \in [Point -> PointStatus]
    /\ op \in [Handler -> Operations \cup {None}]
    /\ stage \in [Handler -> {"idle", "loaded", "ready", "extracting", "extracted"}]
    /\ on \in [Handler -> Visit \cup {None}]
    /\ arg \in [Handler -> Args]
    /\ seen \in [Handler -> Rows]
    /\ \A h \in Handler : stage[h] # "idle" => on[h] \in Visit /\ op[h] \in Operations

Unloads == {"UNLOADING", "UNLOADED", "SECOND_WEIGHMENT", "COMPLETED"}

\* A truck that unloads, or has, was weighed, and has the documents and all
\* the approvals its workflow asks for (docs/architecture.md, section 7).
GatesHold ==
    \A v \in Visit : visit[v].status \in Unloads =>
        /\ visit[v].gross # None /\ visit[v].workflow # None
        /\ DocumentsMet(visit[v].workflow, visit[v])
        /\ Remaining(visit[v]) = {}

\* A completed visit has been weighed twice, the tare below the gross.
CompletedIsWeighed ==
    \A v \in Visit : visit[v].status = "COMPLETED" => visit[v].gross # None /\ visit[v].tare = "ok"

\* A weighment is never replaced, by whatever handlers race for it.
WeighmentsAreKept ==
    [][\A v \in Visit :
          /\ visit[v].gross # None => visit'[v].gross = visit[v].gross
          /\ visit[v].tare # None => visit'[v].tare = visit[v].tare]_vars

\* A decision on an approval stage stands.
DecisionsStand ==
    [][\A v \in Visit : \A decision \in {"APPROVED", "REJECTED"} :
          Decided(visit[v], decision) \subseteq Decided(visit'[v], decision)]_vars

\* The operations that do what resolveNextAction asks for.
Does ==
    [identify |-> {"identify"}, upload_document |-> {"upload", "process", "verifyDocument"},
     assign_material |-> {"assignMaterial"}, record_gross |-> {"weighGross"},
     await_approval |-> {"approve", "ensure"}, assign_unloading |-> {"assignPoint"},
     start_unloading |-> {"start"}, complete_unloading |-> {"complete"},
     record_tare |-> {"weighTare"}, finalize |-> {"finalize"}]

\* No visit is stuck, and none is sent the wrong way: what resolveNextAction
\* tells everybody to do next is open to somebody by the rules of the
\* operations, which are written apart from it (workflowEngine.ts).  Nothing
\* is next for a visit that is over, rejected, an exception, or weighed
\* before it had a material.  A material corrected to one whose documents the
\* visit lacks is told to upload them when it is too late; another helps.
NextActionIsOpen ==
    \A v \in Visit :
        \/ visit[v].status = "ABSENT"
        \/ NextAction(visit[v]) \in {"completed", "blocked", "review_exception", "continue"}
        \/ visit[v].status = "MATERIAL_CLASSIFIED" /\ \E m \in Material : CanAssignMaterial(visit[v], m)
        \/ \E o \in Does[NextAction(visit[v])], a \in Args : Accepts(o, visit[v], a)

\* At most one visit is assigned to, or unloads at, an unloading point.
OneVisitPerPoint ==
    \A v \in Visit : visit[v].unloading \in Active => ~UsedByOther(visit[v].place, v)

InUse(p) == \E v \in Visit : visit[v].place = p /\ visit[v].unloading \in Active

\* The last visit that leaves a point does not leave it OCCUPIED.
PointIsReleased ==
    [][\A p \in Point : InUse(p) /\ ~InUse(p)' => point'[p] # "OCCUPIED"]_vars

\* workflowEngine.ts: material cannot be changed after the first weighment.
MaterialIsFixedWhenWeighed ==
    [][\A v \in Visit : visit[v].gross # None => visit'[v].material = visit[v].material]_vars

-----------------------------------------------------------------------------
(* What the documentation says and the code does not keep                  *)

\* docs/architecture.md: a rejected approval moves the transaction to REJECTED.
RejectionEndsVisit == \A v \in Visit : IsRejected(visit[v]) => visit[v].status = "REJECTED"
=============================================================================
