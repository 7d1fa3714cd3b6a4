--------------------- MODULE TransactionLifecycle_proofs ---------------------
(***************************************************************************)
(* Proofs about TransactionLifecycle for every set of visits, documents,   *)
(* points and handlers, and every assignment of workflows to materials.    *)
(***************************************************************************)
EXTENDS TransactionLifecycle, WellFoundedInduction, TLAPS

-----------------------------------------------------------------------------
(* The operators of the workflow rules                                     *)

\* The first of some stages is one of them: < is well founded on Nat.
LEMMA FirstIsIn ==
    ASSUME NEW S, S \subseteq Nat, S # {}
    PROVE  First(S) \in S
<1> DEFINE R == {p \in Nat \X Nat : p[1] < p[2]}
<1>1. IsWellFoundedOn(R, Nat)
  <2>1. R = OpToRel(<, Nat) BY DEF OpToRel
  <2> QED BY <2>1, NatLessThanWellFounded
<1>2. \E x \in S : \A y \in S : ~(<<y, x>> \in R)
  <2> HIDE DEF R
  <2> QED BY <1>1, WFMin
<1>3. PICK x \in S : \A y \in S : ~(<<y, x>> \in R) BY <1>2
<1>4. ASSUME NEW y \in S PROVE x <= y
  <2>1. x \in Nat /\ y \in Nat OBVIOUS
  <2>2. ~(y < x) BY <1>3, <2>1
  <2> QED BY <2>1, <2>2
<1> QED BY <1>4 DEF First

\* The stages that remain are stages of a workflow.
LEMMA RemainingAreStages ==
    ASSUME NEW r \in Rows
    PROVE  Remaining(r) \subseteq Stages /\ Stages \subseteq Nat
<1>1. Stages \subseteq Nat BY WorkflowAssumption DEF Stages
<1>2. CASE r.workflow = None BY <1>1, <1>2 DEF Remaining
<1>3. CASE r.workflow # None
  <2>1. r.workflow \in Material BY <1>3 DEF Rows
  <2>2. Workflow[r.workflow].stages \subseteq Stages BY <2>1 DEF Stages
  <2> QED BY <1>1, <2>2 DEF Remaining
<1> QED BY <1>2, <1>3

\* ensureRequiredApproval keeps the rows of a visit typed, touches no
\* weighment, and writes no status but PENDING_APPROVAL.
LEMMA RequiredApprovalTyped ==
    ASSUME NEW r \in Rows, NEW g \in Rows
    PROVE  /\ WithRequiredApproval(r, g) \in Rows
           /\ WithRequiredApproval(r, g).gross = r.gross
           /\ WithRequiredApproval(r, g).tare = r.tare
           /\ r.approvals \subseteq WithRequiredApproval(r, g).approvals
           /\ WithRequiredApproval(r, g).status \in {r.status, "PENDING_APPROVAL"}
<1>1. CASE ~MissesApproval(g) BY <1>1 DEF WithRequiredApproval
<1>2. CASE MissesApproval(g)
  <2> DEFINE s == First(Remaining(g))
             a == r.approvals \cup {<<s, "PENDING">>}
             t == IF g.status = "FIRST_WEIGHMENT" THEN "PENDING_APPROVAL" ELSE r.status
  <2>1. s \in Stages
    <3>1. Remaining(g) # {} BY <1>2 DEF MissesApproval
    <3>2. Remaining(g) \subseteq Stages /\ Stages \subseteq Nat BY RemainingAreStages
    <3>3. s \in Remaining(g) BY <3>1, <3>2, FirstIsIn
    <3> QED BY <3>2, <3>3
  <2>2. a \in SUBSET (Stages \X Decisions) BY <2>1 DEF Rows, Decisions
  <2>3. t \in Statuses \cup {"ABSENT"} BY DEF Rows, Statuses
  <2>4. WithRequiredApproval(r, g) = [r EXCEPT !.approvals = a, !.status = t]
      BY <1>2 DEF WithRequiredApproval
  <2>6. r.approvals \subseteq a OBVIOUS
  <2> HIDE DEF a, t, s
  <2>5. t \in {r.status, "PENDING_APPROVAL"} BY DEF t
  <2> QED BY <2>2, <2>3, <2>4, <2>5, <2>6 DEF Rows
<1> QED BY <1>1, <1>2

-----------------------------------------------------------------------------
(* The inductive invariant                                                 *)

\* A handler at work has accepted the rows it has loaded.
Checked == \A h \in Handler : stage[h] # "idle" => Accepts(op[h], seen[h], arg[h])

\* The rows s have lost no weighment and no decision of r.
Keeps(r, s) ==
    /\ r.gross # None => s.gross = r.gross
    /\ r.tare # None => s.tare = r.tare
    /\ \A p \in r.approvals : p[2] # "PENDING" => p \in s.approvals

\* However old the copy of a handler is, the visit keeps what it shows.
CopiesHold == \A h \in Handler : stage[h] # "idle" => Keeps(seen[h], visit[on[h]])

\* What every handler commits: typed rows that keep weighments and decisions, COMPLETED
\* only by finalization.
Sound(h, r) ==
    /\ r \in Rows
    /\ Keeps(Row(h), r)
    /\ r.status = "COMPLETED" =>
          /\ Row(h).status = "COMPLETED" \/ op[h] = "finalize"
          /\ Row(h).status # "COMPLETED" => r.gross = Row(h).gross /\ r.tare = Row(h).tare

\* The rows of a visit, and those a handler has loaded, are typed.
LEMMA RowsTyped ==
    ASSUME TypeOK, NEW h \in Handler, stage[h] # "idle"
    PROVE  on[h] \in Visit /\ Row(h) \in Rows /\ seen[h] \in Rows
BY DEF TypeOK, Row

\* The approval rows a claim leaves are typed.
LEMMA ClaimedTyped ==
    ASSUME TypeOK, NEW h \in Handler, stage[h] # "idle", NEW s, NEW d \in Decisions, Claim(h, s, "APPROVED") \/ Claim(h, s, "REJECTED")
    PROVE  Claimed(h, s, d) \in SUBSET (Stages \X Decisions)
<1>1. Row(h).approvals \in SUBSET (Stages \X Decisions) BY RowsTyped DEF Rows
<1>2. <<s, "PENDING">> \in Row(h).approvals BY DEF Claim
<1>3. s \in Stages BY <1>1, <1>2
<1> QED BY <1>1, <1>3 DEF Claimed

\* A commit that writes no weighment and drops no decision is sound.
LEMMA EditIsSound ==
    ASSUME NEW h, NEW r \in Rows, r.gross = Row(h).gross, r.tare = Row(h).tare,
           \A p \in Row(h).approvals : p[2] # "PENDING" => p \in r.approvals,
           r.status # "COMPLETED" \/ Row(h).status = "COMPLETED" \/ op[h] = "finalize"
    PROVE  Sound(h, r)
BY DEF Sound, Keeps

\* Releasing a point leaves the points typed.
LEMMA ReleasedTyped ==
    ASSUME TypeOK, NEW p, NEW v
    PROVE  Released(p, v) \in [Point -> PointStatus]
BY DEF TypeOK, Released, PointStatus

\* Every commit is sound.
LEMMA CommitIsSound ==
    ASSUME TypeOK, Checked, NEW h \in Handler, Commit(h)
    PROVE  /\ stage[h] # "idle"
           /\ point' \in [Point -> PointStatus]
           /\ \E r : /\ Sound(h, r)
                    /\ \/ Commits(h, r)
                       \/ \E t \in {"extracting", "extracted"} : GoesOn(h, r, t)
<1>1. stage[h] # "idle"
    BY DEF Commit, Ready, IdentifyTransaction, UploadDocument, StartExtraction, StoreExtraction, FailExtraction,
           VerifyDocument, RejectDocument, AssignTransactionMaterial, VerifyTransactionMaterial,
           RecordFirstWeighment, EnsureRequiredApproval, ApproveRequest, RejectRequest,
           AssignUnloading, StartUnloading, CompleteUnloading, RecordSecondWeighment, FinalizeTransaction
<1>2. Row(h) \in Rows /\ seen[h] \in Rows BY <1>1, RowsTyped
<1>3. Accepts(op[h], seen[h], arg[h]) BY <1>1 DEF Checked
<1>4. point \in [Point -> PointStatus] BY DEF TypeOK
<1> DEFINE Leaves == point' \in [Point -> PointStatus]
           Saves(r) == /\ Sound(h, r)
                       /\ \/ Commits(h, r)
                          \/ \E t \in {"extracting", "extracted"} : GoesOn(h, r, t)
<1>5. SUFFICES Leaves /\ \E r : Saves(r) BY <1>1
<1>6. CASE IdentifyTransaction(h)
  <2> DEFINE r == [Row(h) EXCEPT !.status = "IDENTIFIED"]
  <2>1. r \in Rows BY <1>2 DEF Rows, Statuses
  <2>2. r.gross = Row(h).gross /\ r.tare = Row(h).tare /\ r.approvals = Row(h).approvals /\ r.status = "IDENTIFIED"
      BY <1>2 DEF Rows
  <2>3. Sound(h, r) BY <2>1, <2>2, EditIsSound
  <2> QED BY <1>4, <1>6, <2>3 DEF IdentifyTransaction
<1>7. CASE \E d \in Document : UploadDocument(h, d)
  <2>1. PICK d \in Document : UploadDocument(h, d) BY <1>7
  <2> DEFINE t == IF seen[h].status = "IDENTIFIED" THEN "DOCUMENT_PENDING" ELSE Row(h).status
             r == [Row(h) EXCEPT !.documents[d] = "UPLOADED", !.status = t]
  <2>2. t \in Statuses \cup {"ABSENT"} /\ (t = "COMPLETED" => Row(h).status = "COMPLETED")
      BY <1>2 DEF Rows, Statuses
  <2>3. [Row(h).documents EXCEPT ![d] = "UPLOADED"] \in [Document -> DocumentStatus \cup {"ABSENT"}]
      BY <1>2 DEF Rows, DocumentStatus
  <2>4. Commits(h, r) /\ UNCHANGED point BY <2>1 DEF UploadDocument
  <2> HIDE DEF t
  <2>5. r \in Rows BY <1>2, <2>2, <2>3 DEF Rows
  <2>6. r.gross = Row(h).gross /\ r.tare = Row(h).tare /\ r.approvals = Row(h).approvals /\ r.status = t
      BY <1>2 DEF Rows
  <2>7. Sound(h, r) BY <2>2, <2>5, <2>6, EditIsSound
  <2> QED BY <1>4, <2>4, <2>7
<1>8. CASE StartExtraction(h)
  <2> DEFINE r == [Row(h) EXCEPT !.documents[arg[h]] = "PROCESSING"]
  <2>1. r \in Rows BY <1>2 DEF Rows, DocumentStatus
  <2>2. r.gross = Row(h).gross /\ r.tare = Row(h).tare /\ r.approvals = Row(h).approvals /\ r.status = Row(h).status
      BY <1>2 DEF Rows
  <2>3. Sound(h, r) BY <2>1, <2>2, EditIsSound
  <2> QED BY <1>4, <1>8, <2>3 DEF StartExtraction
<1>9. CASE StoreExtraction(h)
  <2> DEFINE r == [Row(h) EXCEPT !.documents[arg[h]] = "EXTRACTED"]
  <2>1. r \in Rows BY <1>2 DEF Rows, DocumentStatus
  <2>2. r.gross = Row(h).gross /\ r.tare = Row(h).tare /\ r.approvals = Row(h).approvals /\ r.status = Row(h).status
      BY <1>2 DEF Rows
  <2>3. Sound(h, r) BY <2>1, <2>2, EditIsSound
  <2> QED BY <1>4, <1>9, <2>3 DEF StoreExtraction
<1>10. CASE FailExtraction(h)
  <2> DEFINE r == [Row(h) EXCEPT !.documents[arg[h]] = "UPLOADED"]
  <2>1. r \in Rows BY <1>2 DEF Rows, DocumentStatus
  <2>2. r.gross = Row(h).gross /\ r.tare = Row(h).tare /\ r.approvals = Row(h).approvals /\ r.status = Row(h).status
      BY <1>2 DEF Rows
  <2>3. Sound(h, r) BY <2>1, <2>2, EditIsSound
  <2> QED BY <1>4, <1>10, <2>3 DEF FailExtraction
<1>11. CASE VerifyDocument(h)
  <2> DEFINE r == [Row(h) EXCEPT !.documents[arg[h]] = "VERIFIED", !.status = "DOCUMENT_VERIFIED"]
  <2>1. [Row(h).documents EXCEPT ![arg[h]] = "VERIFIED"] \in [Document -> DocumentStatus \cup {"ABSENT"}]
      BY <1>2 DEF Rows, DocumentStatus
  <2>2. r \in Rows BY <1>2, <2>1 DEF Rows, Statuses
  <2>3. r.gross = Row(h).gross /\ r.tare = Row(h).tare /\ r.approvals = Row(h).approvals /\ r.status = "DOCUMENT_VERIFIED"
      BY <1>2 DEF Rows
  <2>4. Sound(h, r) BY <2>2, <2>3, EditIsSound
  <2> QED BY <1>4, <1>11, <2>4 DEF VerifyDocument
<1>12. CASE RejectDocument(h)
  <2> DEFINE r == [Row(h) EXCEPT !.documents[arg[h]] = "REJECTED"]
  <2>1. r \in Rows BY <1>2 DEF Rows, DocumentStatus
  <2>2. r.gross = Row(h).gross /\ r.tare = Row(h).tare /\ r.approvals = Row(h).approvals /\ r.status = Row(h).status
      BY <1>2 DEF Rows
  <2>3. Sound(h, r) BY <2>1, <2>2, EditIsSound
  <2> QED BY <1>4, <1>12, <2>3 DEF RejectDocument
<1>13. CASE AssignTransactionMaterial(h)
  <2> DEFINE r == [Row(h) EXCEPT !.material = arg[h], !.workflow = arg[h], !.status = "MATERIAL_CLASSIFIED"]
  <2>1. arg[h] \in Material BY <1>3, <1>13 DEF AssignTransactionMaterial, Ready, Accepts
  <2>2. r \in Rows BY <1>2, <2>1 DEF Rows, Statuses
  <2>3. r.gross = Row(h).gross /\ r.tare = Row(h).tare /\ r.approvals = Row(h).approvals /\ r.status = "MATERIAL_CLASSIFIED"
      BY <1>2 DEF Rows
  <2>4. Sound(h, r) BY <2>2, <2>3, EditIsSound
  <2> QED BY <1>4, <1>13, <2>4 DEF AssignTransactionMaterial
<1>14. CASE VerifyTransactionMaterial(h)
  <2> DEFINE m == IF arg[h] = seen[h].workflow THEN Row(h).material ELSE arg[h]
             r == [Row(h) EXCEPT !.workflow = arg[h], !.material = m]
  <2>1. arg[h] \in Material BY <1>3, <1>14 DEF VerifyTransactionMaterial, Ready, Accepts
  <2>2. m \in Material \cup {None} BY <1>2, <2>1 DEF Rows
  <2>3. Commits(h, r) /\ UNCHANGED point BY <1>14 DEF VerifyTransactionMaterial
  <2> HIDE DEF m
  <2>4. r \in Rows BY <1>2, <2>1, <2>2 DEF Rows
  <2>5. r.gross = Row(h).gross /\ r.tare = Row(h).tare /\ r.approvals = Row(h).approvals /\ r.status = Row(h).status
      BY <1>2 DEF Rows
  <2>6. Sound(h, r) BY <2>4, <2>5, EditIsSound
  <2> QED BY <1>4, <2>3, <2>6
<1>15. CASE \E weight \in {"light", "heavy"} : RecordFirstWeighment(h, weight)
  <2>1. PICK weight \in {"light", "heavy"} : RecordFirstWeighment(h, weight) BY <1>15
  <2> DEFINE q == [Row(h) EXCEPT !.gross = weight, !.status = "FIRST_WEIGHMENT"]
             r == WithRequiredApproval(q, q)
  <2>2. q \in Rows BY <1>2 DEF Rows, Statuses
  <2>3. q.gross = weight /\ q.tare = Row(h).tare /\ q.approvals = Row(h).approvals /\ q.status = "FIRST_WEIGHMENT"
      BY <1>2 DEF Rows
  <2>4. Row(h).gross = None /\ Commits(h, r) /\ UNCHANGED point BY <2>1 DEF RecordFirstWeighment
  <2> HIDE DEF q
  <2>5. Sound(h, r)
    <3>1. r \in Rows /\ r.tare = q.tare /\ q.approvals \subseteq r.approvals /\ r.status \in {q.status, "PENDING_APPROVAL"}
        BY <2>2, RequiredApprovalTyped
    <3> QED BY <2>3, <2>4, <3>1 DEF Sound, Keeps
  <2> QED BY <1>4, <2>4, <2>5
<1>16. CASE EnsureRequiredApproval(h)
  <2> DEFINE r == WithRequiredApproval(Row(h), seen[h])
  <2>1. Sound(h, r) BY <1>2, RequiredApprovalTyped DEF Sound, Keeps
  <2> QED BY <1>4, <1>16, <2>1 DEF EnsureRequiredApproval
<1>17. CASE ApproveRequest(h)
  <2> DEFINE c == Claimed(h, arg[h], "APPROVED")
             q == [Row(h) EXCEPT !.approvals = c]
             r == IF Remaining(q) # {} THEN WithRequiredApproval(q, q)
                  ELSE IF CanTransition(q.status, "APPROVED") THEN [q EXCEPT !.status = "APPROVED"]
                  ELSE q
  <2>1. c \in SUBSET (Stages \X Decisions)
      BY <1>1, <1>17, ClaimedTyped DEF ApproveRequest, Decisions
  <2>2. Commits(h, r) /\ UNCHANGED point BY <1>17 DEF ApproveRequest
  <2>9. \A p \in Row(h).approvals : p[2] # "PENDING" => p \in c BY DEF Claimed
  <2> HIDE DEF c
  <2>3. q \in Rows BY <1>2, <2>1 DEF Rows
  <2>4. q.gross = Row(h).gross /\ q.tare = Row(h).tare /\ q.approvals = c /\ q.status = Row(h).status
      BY <1>2 DEF Rows
  <2> HIDE DEF q
  <2>5. Sound(h, WithRequiredApproval(q, q))
      BY <2>3, <2>4, <2>9, RequiredApprovalTyped DEF Sound, Keeps
  <2>6. Sound(h, [q EXCEPT !.status = "APPROVED"])
    <3> DEFINE a == [q EXCEPT !.status = "APPROVED"]
    <3>1. a \in Rows BY <2>3 DEF Rows, Statuses
    <3>2. a.gross = q.gross /\ a.tare = q.tare /\ a.approvals = q.approvals /\ a.status = "APPROVED" BY <2>3 DEF Rows
    <3> QED BY <2>4, <2>9, <3>1, <3>2, EditIsSound
  <2>7. Sound(h, q) BY <2>3, <2>4, <2>9, EditIsSound
  <2>8. Sound(h, r) BY <2>5, <2>6, <2>7
  <2> QED BY <1>4, <2>2, <2>8
<1>18. CASE RejectRequest(h)
  <2> DEFINE c == Claimed(h, arg[h], "REJECTED")
             t == IF CanTransition(seen[h].status, "REJECTED") THEN "REJECTED" ELSE Row(h).status
             r == [Row(h) EXCEPT !.approvals = c, !.status = t]
  <2>1. c \in SUBSET (Stages \X Decisions)
      BY <1>1, <1>18, ClaimedTyped DEF RejectRequest, Decisions
  <2>2. t \in Statuses \cup {"ABSENT"} /\ (t = "COMPLETED" => Row(h).status = "COMPLETED")
      BY <1>2 DEF Rows, Statuses
  <2>3. Commits(h, r) /\ UNCHANGED point BY <1>18 DEF RejectRequest
  <2>9. \A p \in Row(h).approvals : p[2] # "PENDING" => p \in c BY DEF Claimed
  <2> HIDE DEF c, t
  <2>4. r \in Rows BY <1>2, <2>1, <2>2 DEF Rows
  <2>5. r.gross = Row(h).gross /\ r.tare = Row(h).tare /\ r.approvals = c /\ r.status = t
      BY <1>2 DEF Rows
  <2>6. Sound(h, r) BY <2>2, <2>4, <2>5, <2>9, EditIsSound
  <2> QED BY <1>4, <2>3, <2>6
<1>19. CASE AssignUnloading(h)
  <2> DEFINE r == [Row(h) EXCEPT !.place = arg[h], !.unloading = "NOT_STARTED"]
             q == IF seen[h].place = arg[h] THEN point ELSE Released(seen[h].place, on[h])
  <2>1. arg[h] \in Point BY <1>3, <1>19 DEF AssignUnloading, Ready, Accepts
  <2>2. Sound(h, r)
    <3>1. r \in Rows BY <1>2, <2>1 DEF Rows, Active
    <3>2. r.gross = Row(h).gross /\ r.tare = Row(h).tare /\ r.approvals = Row(h).approvals /\ r.status = Row(h).status
        BY <1>2 DEF Rows
    <3> QED BY <3>1, <3>2, EditIsSound
  <2>3. q \in [Point -> PointStatus] BY <1>4, ReleasedTyped
  <2>4. point' = [q EXCEPT ![arg[h]] = "OCCUPIED"] /\ Commits(h, r) BY <1>19 DEF AssignUnloading
  <2> HIDE DEF q, r
  <2>5. Leaves BY <2>3, <2>4 DEF PointStatus
  <2> QED BY <2>2, <2>4, <2>5
<1>20. CASE StartUnloading(h)
  <2> DEFINE r == [Row(h) EXCEPT !.unloading = "IN_PROGRESS", !.status = "UNLOADING"]
  <2>1. Sound(h, r)
    <3>1. r \in Rows BY <1>2 DEF Rows, Active, Statuses
    <3>2. r.gross = Row(h).gross /\ r.tare = Row(h).tare /\ r.approvals = Row(h).approvals /\ r.status = "UNLOADING"
        BY <1>2 DEF Rows
    <3> QED BY <3>1, <3>2, EditIsSound
  <2>2. Leaves BY <1>4, <1>20 DEF StartUnloading, PointStatus
  <2> QED BY <1>20, <2>1, <2>2 DEF StartUnloading
<1>21. CASE CompleteUnloading(h)
  <2> DEFINE r == [Row(h) EXCEPT !.unloading = "COMPLETED", !.status = "UNLOADED"]
  <2>1. Sound(h, r)
    <3>1. r \in Rows BY <1>2 DEF Rows, Statuses
    <3>2. r.gross = Row(h).gross /\ r.tare = Row(h).tare /\ r.approvals = Row(h).approvals /\ r.status = "UNLOADED"
        BY <1>2 DEF Rows
    <3> QED BY <3>1, <3>2, EditIsSound
  <2>2. Leaves BY <1>21, ReleasedTyped DEF CompleteUnloading
  <2> QED BY <1>21, <2>1, <2>2 DEF CompleteUnloading
<1>22. CASE \E outcome \in {"ok", "over"} : RecordSecondWeighment(h, outcome)
  <2>1. PICK outcome \in {"ok", "over"} : RecordSecondWeighment(h, outcome) BY <1>22
  <2> DEFINE t == IF outcome = "ok" THEN "SECOND_WEIGHMENT" ELSE "EXCEPTION"
             r == [Row(h) EXCEPT !.tare = outcome, !.status = t]
  <2>2. t \in Statuses /\ t # "COMPLETED" BY DEF Statuses
  <2>3. Row(h).tare = None /\ Commits(h, r) /\ UNCHANGED point BY <2>1 DEF RecordSecondWeighment
  <2> HIDE DEF t
  <2>4. r \in Rows BY <1>2, <2>2 DEF Rows
  <2>5. r.gross = Row(h).gross /\ r.approvals = Row(h).approvals /\ r.status = t BY <1>2 DEF Rows
  <2>6. Sound(h, r) BY <2>2, <2>3, <2>4, <2>5 DEF Sound, Keeps
  <2> QED BY <1>4, <2>3, <2>6
<1>23. CASE FinalizeTransaction(h)
  <2> DEFINE r == [Row(h) EXCEPT !.status = "COMPLETED"]
  <2>1. op[h] = "finalize" BY <1>23 DEF FinalizeTransaction, Ready
  <2>2. Sound(h, r)
    <3>1. r \in Rows BY <1>2 DEF Rows, Statuses
    <3>2. r.gross = Row(h).gross /\ r.tare = Row(h).tare /\ r.approvals = Row(h).approvals
        BY <1>2 DEF Rows
    <3> QED BY <2>1, <3>1, <3>2, EditIsSound
  <2> QED BY <1>4, <1>23, <2>2 DEF FinalizeTransaction
<1> QED
  BY <1>6, <1>7, <1>8, <1>9, <1>10, <1>11, <1>12, <1>13, <1>14, <1>15, <1>16, <1>17, <1>18, <1>19,
     <1>20, <1>21, <1>22, <1>23 DEF Commit

-----------------------------------------------------------------------------
(* The steps                                                               *)

IInv == TypeOK /\ Checked /\ CopiesHold /\ CompletedIsWeighed

\* The initial states satisfy the invariant: no handler is at work.
LEMMA InitIInv == Init => IInv
<1> SUFFICES ASSUME Init PROVE IInv OBVIOUS
<1>1. NoVisit \in Rows BY DEF NoVisit, Rows
<1>2. TypeOK BY <1>1 DEF Init, TypeOK, PointStatus, Args
<1>3. Checked /\ CopiesHold BY DEF Init, Checked, CopiesHold
<1>4. CompletedIsWeighed BY DEF Init, CompletedIsWeighed, NoVisit
<1> QED BY <1>2, <1>3, <1>4 DEF IInv

\* A sound commit, of a handler that ends or goes on with its extraction,
\* keeps the invariant, the weighments and decisions of every visit.
LEMMA SoundKeepsIInv ==
    ASSUME IInv, NEW h \in Handler, stage[h] # "idle", point' \in [Point -> PointStatus],
           NEW r, Sound(h, r),
           \/ Commits(h, r)
           \/ \E t \in {"extracting", "extracted"} : GoesOn(h, r, t)
    PROVE  IInv' /\ \A v \in Visit : Keeps(visit[v], visit'[v])
<1> USE DEF IInv
<1>1. on[h] \in Visit /\ Row(h) \in Rows /\ seen[h] \in Rows BY RowsTyped
<1>2. visit' = [visit EXCEPT ![on[h]] = r] BY DEF Commits, GoesOn, Writes
<1>3. visit' \in [Visit -> Rows] BY <1>1, <1>2 DEF TypeOK, Sound
<1>4. visit'[on[h]] = r /\ \A v \in Visit \ {on[h]} : visit'[v] = visit[v] BY <1>1, <1>2 DEF TypeOK
<1>5. \A v \in Visit : Keeps(visit[v], visit'[v])
  <2>1. Keeps(visit[on[h]], visit'[on[h]]) BY <1>4 DEF Sound, Row
  <2>2. ASSUME NEW v \in Visit \ {on[h]} PROVE Keeps(visit[v], visit'[v])
      BY <1>4 DEF Keeps
  <2> QED BY <2>1, <2>2
<1>6. NoVisit \in Rows BY DEF NoVisit, Rows
<1>7. TypeOK'
  <2>1. CASE Commits(h, r) BY <1>3, <1>6, <2>1 DEF TypeOK, Commits, Forget, Args
  <2>2. CASE ~Commits(h, r) BY <1>3, <2>2 DEF TypeOK, GoesOn
  <2> QED BY <2>1, <2>2
<1>8. \A g \in Handler : stage'[g] # "idle" =>
         stage[g] # "idle" /\ op'[g] = op[g] /\ on'[g] = on[g] /\ arg'[g] = arg[g] /\ seen'[g] = seen[g]
  <2>1. CASE Commits(h, r) BY <2>1 DEF TypeOK, Commits, Forget
  <2>2. CASE ~Commits(h, r) BY <2>2 DEF TypeOK, GoesOn
  <2> QED BY <2>1, <2>2
<1>9. Checked' BY <1>8 DEF Checked
<1>10. CopiesHold'
  <2> SUFFICES ASSUME NEW g \in Handler, stage'[g] # "idle"
               PROVE  Keeps(seen'[g], visit'[on'[g]])
      BY DEF CopiesHold
  <2>1. Keeps(seen[g], visit[on[g]]) BY <1>8 DEF CopiesHold
  <2>2. on[g] \in Visit BY <1>8, RowsTyped
  <2>3. Keeps(visit[on[g]], visit'[on[g]]) BY <1>5, <2>2
  <2> QED BY <1>8, <2>1, <2>3 DEF Keeps
<1>11. CompletedIsWeighed'
  <2> SUFFICES ASSUME NEW v \in Visit, visit'[v].status = "COMPLETED"
               PROVE  visit'[v].gross # None /\ visit'[v].tare = "ok"
      BY DEF CompletedIsWeighed
  <2>1. None # "ok" BY WorkflowAssumption
  <2>2. CASE visit[v].status = "COMPLETED"
      BY <1>5, <2>1, <2>2 DEF CompletedIsWeighed, Keeps
  <2>3. CASE visit[v].status # "COMPLETED"
    <3>1. v = on[h] BY <1>4, <2>3
    <3>2. op[h] = "finalize" /\ r.gross = Row(h).gross /\ r.tare = Row(h).tare
        BY <1>4, <2>3, <3>1 DEF Sound, Row
    <3>3. seen[h].gross # None /\ seen[h].tare = "ok"
        BY <3>2 DEF Checked, Accepts, CanFinalize
    <3>4. Keeps(seen[h], Row(h)) BY DEF CopiesHold, Row
    <3> QED BY <1>4, <2>1, <3>1, <3>2, <3>3, <3>4 DEF Keeps
  <2> QED BY <2>2, <2>3
<1> QED BY <1>5, <1>7, <1>9, <1>10, <1>11

\* Every step keeps the invariant, all weighments and all decisions.
LEMMA NextIInv ==
    ASSUME IInv, [Next]_vars
    PROVE  IInv' /\ \A v \in Visit : Keeps(visit[v], visit'[v])
<1> USE DEF IInv
<1>1. CASE \E v \in Visit : CreateTransaction(v)
  <2>1. PICK v \in Visit : CreateTransaction(v) BY <1>1
  <2> DEFINE r == [visit[v] EXCEPT !.status = "ARRIVED"]
  <2>2. visit' = [visit EXCEPT ![v] = r] /\ UNCHANGED <<point, callVars>>
      BY <2>1 DEF CreateTransaction
  <2>3. visit' \in [Visit -> Rows]
    <3>1. visit[v] \in Rows BY DEF TypeOK
    <3>2. r \in Rows BY <3>1 DEF Rows, Statuses
    <3> HIDE DEF r
    <3> QED BY <2>2, <3>2 DEF TypeOK
  <2>4. visit'[v].status = "ARRIVED" /\ \A w \in Visit \ {v} : visit'[w] = visit[w]
      BY <2>2 DEF TypeOK, Rows
  <2>5. visit'[v].gross = visit[v].gross /\ visit'[v].tare = visit[v].tare /\ visit'[v].approvals = visit[v].approvals
      BY <2>2 DEF TypeOK, Rows
  <2>6. \A w \in Visit : Keeps(visit[w], visit'[w]) BY <2>4, <2>5 DEF Keeps
  <2>7. TypeOK' BY <2>2, <2>3 DEF TypeOK, callVars
  <2>8. Checked' BY <2>2 DEF Checked, callVars
  <2>9. CopiesHold' BY <2>2, <2>6 DEF CopiesHold, callVars, Keeps, TypeOK
  <2>10. CompletedIsWeighed' BY <2>4 DEF CompletedIsWeighed
  <2> QED BY <2>6, <2>7, <2>8, <2>9, <2>10
<1>2. CASE \E p \in Point, s \in PointStatus : UpdateUnloadingPoint(p, s)
  <2>1. TypeOK' /\ UNCHANGED <<visit, callVars>> BY <1>2 DEF UpdateUnloadingPoint, TypeOK, callVars
  <2> QED BY <2>1 DEF Checked, CopiesHold, CompletedIsWeighed, Keeps, callVars
<1>3. CASE \E h \in Handler, v \in Visit, o \in Operations, a \in Args : Load(h, v, o, a)
  <2>1. PICK h \in Handler, v \in Visit, o \in Operations, a \in Args : Load(h, v, o, a) BY <1>3
  <2>2. TypeOK' BY <2>1 DEF Load, TypeOK
  <2>3. Checked' BY <2>1 DEF Load, TypeOK, Checked
  <2>4. CopiesHold' BY <2>1 DEF Load, TypeOK, CopiesHold, Keeps
  <2>5. UNCHANGED visit BY <2>1 DEF Load
  <2> QED BY <2>2, <2>3, <2>4, <2>5 DEF CompletedIsWeighed, Keeps
<1>4. CASE \E h \in Handler : CheckPoint(h) \/ Rollback(h)
  <2>1. PICK h \in Handler : CheckPoint(h) \/ Rollback(h) BY <1>4
  <2>2. UNCHANGED <<visit, point>> BY <2>1 DEF CheckPoint, Rollback
  <2>3. TypeOK'
    <3>1. NoVisit \in Rows BY DEF NoVisit, Rows
    <3> QED BY <2>1, <3>1 DEF CheckPoint, Rollback, Forget, TypeOK, Args
  <2>4. \A g \in Handler : stage'[g] # "idle" =>
           stage[g] # "idle" /\ op'[g] = op[g] /\ on'[g] = on[g] /\ arg'[g] = arg[g] /\ seen'[g] = seen[g]
      BY <2>1 DEF CheckPoint, Rollback, Forget, TypeOK
  <2> QED BY <2>2, <2>3, <2>4 DEF Checked, CopiesHold, CompletedIsWeighed, Keeps
<1>5. CASE \E h \in Handler : Commit(h)
  <2>1. PICK h \in Handler : Commit(h) BY <1>5
  <2>2. stage[h] # "idle" /\ point' \in [Point -> PointStatus] BY <2>1, CommitIsSound
  <2>3. PICK r : /\ Sound(h, r)
                 /\ \/ Commits(h, r)
                    \/ \E t \in {"extracting", "extracted"} : GoesOn(h, r, t)
      BY <2>1, CommitIsSound
  <2> QED BY <2>2, <2>3, SoundKeepsIInv
<1>6. CASE UNCHANGED vars
  BY <1>6 DEF vars, callVars, TypeOK, Checked, CopiesHold, CompletedIsWeighed, Keeps
<1> QED BY <1>1, <1>2, <1>3, <1>4, <1>5, <1>6 DEF Next

-----------------------------------------------------------------------------
(* The theorems                                                            *)

\* The invariant holds in every state of every behaviour.
LEMMA SpecIInv == Spec => []IInv
BY InitIInv, NextIInv, PTL DEF Spec

\* The variables of the central visits and their handlers stay in their domains.
THEOREM TypeCorrect == Spec => []TypeOK
<1>1. IInv => TypeOK BY DEF IInv
<1> QED BY <1>1, SpecIInv, PTL

\* Whatever handlers race on a visit, finalizeTransaction completes only a
\* visit that was weighed twice, the tare below the gross weight.
THEOREM CompletedCorrect == Spec => []CompletedIsWeighed
<1>1. IInv => CompletedIsWeighed BY DEF IInv
<1> QED BY <1>1, SpecIInv, PTL

\* No handler replaces a weighment that recordFirstWeighment or
\* recordSecondWeighment has stored.
THEOREM WeighmentsKept == Spec => WeighmentsAreKept
<1>1. IInv /\ [Next]_vars =>
         [\A v \in Visit :
            /\ visit[v].gross # None => visit'[v].gross = visit[v].gross
            /\ visit[v].tare # None => visit'[v].tare = visit[v].tare]_vars
    BY NextIInv DEF Keeps
<1> QED BY <1>1, SpecIInv, PTL DEF Spec, WeighmentsAreKept

\* No handler takes back what approveRequest or rejectRequest has decided.
THEOREM DecisionsKept == Spec => DecisionsStand
<1>1. ASSUME IInv, [Next]_vars, NEW v \in Visit, NEW decision \in {"APPROVED", "REJECTED"}
      PROVE  Decided(visit[v], decision) \subseteq Decided(visit'[v], decision)
  <2>1. Keeps(visit[v], visit'[v]) BY <1>1, NextIInv
  <2>2. ASSUME NEW s \in Decided(visit[v], decision) PROVE s \in Decided(visit'[v], decision)
    <3>1. s \in Stages /\ <<s, decision>> \in visit[v].approvals BY DEF Decided
    <3>2. <<s, decision>>[2] # "PENDING" BY <1>1
    <3>3. <<s, decision>> \in visit'[v].approvals BY <2>1, <3>1, <3>2 DEF Keeps
    <3> QED BY <3>1, <3>3 DEF Decided
  <2> QED BY <2>2
<1>2. IInv /\ [Next]_vars =>
         [\A v \in Visit : \A decision \in {"APPROVED", "REJECTED"} :
             Decided(visit[v], decision) \subseteq Decided(visit'[v], decision)]_vars
    BY <1>1
<1> QED BY <1>2, SpecIInv, PTL DEF Spec, DecisionsStand

-----------------------------------------------------------------------------
(* Which handlers may overlap                                              *)

Busy(h) == stage[h] # "idle"

\* The operations that take a point: assignUnloadingPoint and startUnloading.
Pointing == {"assignPoint", "start"}

\* No two requests about the same visit overlap.
OnePerVisit == \A g, h \in Handler : Busy(g) /\ Busy(h) /\ on[g] = on[h] => g = h

\* No two requests that take a point overlap, whatever else does.
OneAtThePoints ==
    \A g, h \in Handler : Busy(g) /\ Busy(h) /\ op[g] \in Pointing /\ op[h] \in Pointing => g = h

-----------------------------------------------------------------------------
(* What a commit does to the place and the material of its visit           *)

\* ensureRequiredApproval writes the approval rows and the status, no more.
LEMMA RequiredApprovalKeeps ==
    ASSUME NEW r \in Rows, NEW g
    PROVE  LET s == WithRequiredApproval(r, g) IN
           /\ s.documents = r.documents /\ s.material = r.material /\ s.workflow = r.workflow
           /\ s.gross = r.gross /\ s.tare = r.tare /\ s.place = r.place /\ s.unloading = r.unloading
BY DEF WithRequiredApproval, Rows

\* A commit of the rows r leaves the visit where it is, takes it to a point,
\* starts its unloading there, or ends it.
Moves(h, r) ==
    \/ r.place = Row(h).place /\ r.unloading = Row(h).unloading /\ UNCHANGED point
    \/ AssignUnloading(h) /\ r.place = arg[h] /\ r.unloading = "NOT_STARTED"
    \/ StartUnloading(h) /\ r.place = Row(h).place /\ r.unloading = "IN_PROGRESS"
    \/ CompleteUnloading(h) /\ r.place = Row(h).place /\ r.unloading = "COMPLETED"

\* Only three handlers touch the place and the state of an unloading, and
\* only two the material.
LEMMA CommitMoves ==
    ASSUME TypeOK, Checked, NEW h \in Handler, Commit(h), NEW r, Writes(h, r)
    PROVE  /\ Busy(h) /\ on[h] \in Visit
           /\ visit'[on[h]] = r /\ \A v \in Visit \ {on[h]} : visit'[v] = visit[v]
           /\ Moves(h, r)
           /\ \/ r.material = Row(h).material
              \/ stage[h] = "ready" /\ op[h] \in {"assignMaterial", "verifyMaterial"}
<1>1. Busy(h) BY CommitIsSound DEF Busy
<1>2. on[h] \in Visit /\ Row(h) \in Rows /\ seen[h] \in Rows BY <1>1, RowsTyped DEF Busy
<1>3. ASSUME NEW q, Writes(h, q) PROVE q = r
    BY <1>2, <1>3 DEF Writes, TypeOK
<1>4. visit'[on[h]] = r /\ \A v \in Visit \ {on[h]} : visit'[v] = visit[v]
    BY <1>2 DEF Writes, TypeOK
<1> DEFINE SameMaterial == r.material = Row(h).material
           Classifies == SameMaterial \/ (stage[h] = "ready" /\ op[h] \in {"assignMaterial", "verifyMaterial"})
<1>5. SUFFICES Moves(h, r) /\ Classifies BY <1>1, <1>2, <1>4
<1> USE DEF Moves
<1>6. CASE IdentifyTransaction(h)
  BY <1>2, <1>3, <1>6 DEF IdentifyTransaction, Commits, Rows
<1>7. CASE \E d \in Document : UploadDocument(h, d)
  <2>1. PICK d \in Document : UploadDocument(h, d) BY <1>7
  <2> QED BY <1>2, <1>3, <2>1 DEF UploadDocument, Commits, Rows
<1>8. CASE StartExtraction(h) \/ StoreExtraction(h) \/ FailExtraction(h)
  BY <1>2, <1>3, <1>8 DEF StartExtraction, StoreExtraction, FailExtraction, Commits, GoesOn, Rows
<1>9. CASE VerifyDocument(h) \/ RejectDocument(h)
  BY <1>2, <1>3, <1>9 DEF VerifyDocument, RejectDocument, Commits, Rows
<1>10. CASE AssignTransactionMaterial(h)
  BY <1>2, <1>3, <1>10 DEF AssignTransactionMaterial, Ready, Commits, Rows
<1>11. CASE VerifyTransactionMaterial(h)
  BY <1>2, <1>3, <1>11 DEF VerifyTransactionMaterial, Ready, Commits, Rows
<1>12. CASE \E weight \in {"light", "heavy"} : RecordFirstWeighment(h, weight)
  <2>1. PICK weight \in {"light", "heavy"} : RecordFirstWeighment(h, weight) BY <1>12
  <2> DEFINE q == [Row(h) EXCEPT !.gross = weight, !.status = "FIRST_WEIGHMENT"]
  <2>2. q \in Rows BY <1>2 DEF Rows, Statuses
  <2>3. q.place = Row(h).place /\ q.unloading = Row(h).unloading /\ q.material = Row(h).material
      BY <1>2 DEF Rows
  <2>4. Commits(h, WithRequiredApproval(q, q)) /\ UNCHANGED point BY <2>1 DEF RecordFirstWeighment
  <2> HIDE DEF q
  <2> QED BY <1>3, <2>2, <2>3, <2>4, RequiredApprovalKeeps DEF Commits
<1>13. CASE EnsureRequiredApproval(h)
  BY <1>2, <1>3, <1>13, RequiredApprovalKeeps DEF EnsureRequiredApproval, Commits
<1>14. CASE ApproveRequest(h)
  <2> DEFINE c == Claimed(h, arg[h], "APPROVED")
             q == [Row(h) EXCEPT !.approvals = c]
             s == IF Remaining(q) # {} THEN WithRequiredApproval(q, q)
                  ELSE IF CanTransition(q.status, "APPROVED") THEN [q EXCEPT !.status = "APPROVED"]
                  ELSE q
  <2>1. c \in SUBSET (Stages \X Decisions)
      BY <1>1, <1>14, ClaimedTyped DEF ApproveRequest, Decisions, Busy
  <2>2. Commits(h, s) /\ UNCHANGED point BY <1>14 DEF ApproveRequest
  <2> HIDE DEF c
  <2>3. q \in Rows BY <1>2, <2>1 DEF Rows
  <2>4. q.place = Row(h).place /\ q.unloading = Row(h).unloading /\ q.material = Row(h).material
      BY <1>2 DEF Rows
  <2> HIDE DEF q
  <2>5. s.place = q.place /\ s.unloading = q.unloading /\ s.material = q.material
    <3>1. CASE s = WithRequiredApproval(q, q) BY <2>3, <3>1, RequiredApprovalKeeps
    <3>2. CASE s # WithRequiredApproval(q, q) BY <2>3, <3>2 DEF Rows
    <3> QED BY <3>1, <3>2
  <2> QED BY <1>3, <2>2, <2>4, <2>5 DEF Commits
<1>15. CASE RejectRequest(h)
  BY <1>2, <1>3, <1>15 DEF RejectRequest, Commits, Rows
<1>16. CASE AssignUnloading(h)
  <2>1. SameMaterial BY <1>2, <1>3, <1>16 DEF AssignUnloading, Commits, Rows
  <2>2. r.place = arg[h] /\ r.unloading = "NOT_STARTED"
      BY <1>2, <1>3, <1>16 DEF AssignUnloading, Commits, Rows
  <2> QED BY <1>16, <2>1, <2>2
<1>17. CASE StartUnloading(h)
  <2>1. SameMaterial BY <1>2, <1>3, <1>17 DEF StartUnloading, Commits, Rows
  <2>2. r.place = Row(h).place /\ r.unloading = "IN_PROGRESS"
      BY <1>2, <1>3, <1>17 DEF StartUnloading, Commits, Rows
  <2> QED BY <1>17, <2>1, <2>2
<1>18. CASE CompleteUnloading(h)
  <2>1. SameMaterial BY <1>2, <1>3, <1>18 DEF CompleteUnloading, Commits, Rows
  <2>2. r.place = Row(h).place /\ r.unloading = "COMPLETED"
      BY <1>2, <1>3, <1>18 DEF CompleteUnloading, Commits, Rows
  <2> QED BY <1>18, <2>1, <2>2
<1>19. CASE \E outcome \in {"ok", "over"} : RecordSecondWeighment(h, outcome)
  <2>1. PICK outcome \in {"ok", "over"} : RecordSecondWeighment(h, outcome) BY <1>19
  <2> QED BY <1>2, <1>3, <2>1 DEF RecordSecondWeighment, Commits, Rows
<1>20. CASE FinalizeTransaction(h)
  BY <1>2, <1>3, <1>20 DEF FinalizeTransaction, Commits, Rows
<1> QED
  BY <1>6, <1>7, <1>8, <1>9, <1>10, <1>11, <1>12, <1>13, <1>14, <1>15, <1>16, <1>17, <1>18, <1>19, <1>20 DEF Commit

-----------------------------------------------------------------------------
(* At most one visit at a point                                            *)

\* A handler that takes a point knows where the visit is, and once it has
\* looked, that no other visit uses the point it takes.
PointsFree ==
    \A h \in Handler :
        /\ stage[h] = "loaded" => op[h] \in Pointing
        /\ Busy(h) /\ op[h] \in Pointing => Row(h).place = seen[h].place
        /\ stage[h] = "ready" /\ op[h] \in Pointing => ~UsedByOther(PointFor(h), on[h])

PInv == PointsFree /\ OneVisitPerPoint

\* A step that takes no visit to a point and starts no handler keeps this.
LEMMA LeavingKeepsPInv ==
    ASSUME TypeOK, PInv,
           \A v \in Visit : /\ visit'[v].place = visit[v].place
                            /\ visit'[v].unloading \in Active => visit[v].unloading \in Active,
           \A g \in Handler : stage'[g] # "idle" =>
              /\ Busy(g) /\ op'[g] = op[g] /\ on'[g] = on[g] /\ arg'[g] = arg[g] /\ seen'[g] = seen[g]
              /\ stage'[g] \in {"loaded", "ready"} => stage'[g] = stage[g]
    PROVE  PInv'
<1>1. ASSUME NEW p, NEW v, ~UsedByOther(p, v) PROVE ~UsedByOther(p, v)'
    BY <1>1 DEF UsedByOther
<1>2. OneVisitPerPoint'
  <2> SUFFICES ASSUME NEW v \in Visit, visit'[v].unloading \in Active
               PROVE  ~UsedByOther(visit[v].place, v)'
      BY DEF OneVisitPerPoint, UsedByOther, Active
  <2>1. ~UsedByOther(visit[v].place, v) BY DEF PInv, OneVisitPerPoint
  <2> QED BY <2>1 DEF UsedByOther
<1>3. PointsFree'
  <2> SUFFICES ASSUME NEW g \in Handler, stage'[g] # "idle"
               PROVE  /\ stage'[g] = "loaded" => op'[g] \in Pointing
                      /\ op'[g] \in Pointing => visit'[on'[g]].place = seen'[g].place
                      /\ stage'[g] = "ready" /\ op'[g] \in Pointing => ~UsedByOther(PointFor(g), on[g])'
      BY DEF PointsFree, Busy, Row, Pointing
  <2>1. /\ Busy(g) /\ op'[g] = op[g] /\ on'[g] = on[g] /\ arg'[g] = arg[g] /\ seen'[g] = seen[g]
        /\ stage'[g] \in {"loaded", "ready"} => stage'[g] = stage[g]
      OBVIOUS
  <2>2. on[g] \in Visit BY <2>1, RowsTyped DEF Busy
  <2>3. stage'[g] = "loaded" => op'[g] \in Pointing BY <2>1 DEF PInv, PointsFree
  <2>4. op'[g] \in Pointing => visit'[on'[g]].place = seen'[g].place
      BY <2>1, <2>2 DEF PInv, PointsFree, Row
  <2>5. ASSUME stage'[g] = "ready", op'[g] \in Pointing PROVE ~UsedByOther(PointFor(g), on[g])'
    <3>1. ~UsedByOther(PointFor(g), on[g]) BY <2>1, <2>5 DEF PInv, PointsFree
    <3>2. PointFor(g)' = PointFor(g) BY <2>1 DEF PointFor
    <3> QED BY <2>1, <3>1, <3>2 DEF UsedByOther
  <2> QED BY <2>3, <2>4, <2>5
<1> QED BY <1>2, <1>3 DEF PInv

\* While no other request takes a point, every step keeps it so.
LEMMA NextPInv ==
    ASSUME IInv, PInv, OneAtThePoints, [Next]_vars
    PROVE  PInv'
<1> USE DEF IInv
<1>1. CASE \E v \in Visit : CreateTransaction(v)
  <2>1. PICK v \in Visit : CreateTransaction(v) BY <1>1
  <2>2. visit[v] \in Rows /\ visit' = [visit EXCEPT ![v] = [visit[v] EXCEPT !.status = "ARRIVED"]]
      BY <2>1 DEF CreateTransaction, TypeOK
  <2>3. \A w \in Visit : visit'[w].place = visit[w].place /\ visit'[w].unloading = visit[w].unloading
      BY <2>2 DEF TypeOK, Rows
  <2>4. UNCHANGED callVars BY <2>1 DEF CreateTransaction
  <2> QED BY <2>3, <2>4, LeavingKeepsPInv DEF callVars, Busy
<1>2. CASE \E p \in Point, s \in PointStatus : UpdateUnloadingPoint(p, s)
  <2>1. UNCHANGED <<visit, callVars>> BY <1>2 DEF UpdateUnloadingPoint
  <2> QED BY <2>1, LeavingKeepsPInv DEF callVars, Busy
<1>3. CASE \E h \in Handler, v \in Visit, o \in Operations, a \in Args : Load(h, v, o, a)
  <2>1. PICK h \in Handler, v \in Visit, o \in Operations, a \in Args : Load(h, v, o, a) BY <1>3
  <2>2. OneVisitPerPoint' BY <2>1 DEF Load, PInv, OneVisitPerPoint, UsedByOther
  <2>3. PointsFree'
    <3> SUFFICES ASSUME NEW g \in Handler
                 PROVE  /\ stage'[g] = "loaded" => op'[g] \in Pointing
                        /\ stage'[g] # "idle" /\ op'[g] \in Pointing => visit'[on'[g]].place = seen'[g].place
                        /\ stage'[g] = "ready" /\ op'[g] \in Pointing => ~UsedByOther(PointFor(g), on[g])'
        BY DEF PointsFree, Busy, Row, Pointing
    <3>1. CASE g = h BY <2>1, <3>1 DEF Load, TypeOK, Pointing
    <3>2. CASE g # h
      <4>1. /\ stage'[g] = stage[g] /\ op'[g] = op[g] /\ on'[g] = on[g]
            /\ arg'[g] = arg[g] /\ seen'[g] = seen[g] /\ visit' = visit
          BY <2>1, <3>2 DEF Load, TypeOK
      <4> QED BY <4>1 DEF PInv, PointsFree, Busy, Row, PointFor, UsedByOther
    <3> QED BY <3>1, <3>2
  <2> QED BY <2>2, <2>3 DEF PInv
<1>4. CASE \E h \in Handler : Rollback(h)
  <2>1. PICK h \in Handler : Rollback(h) BY <1>4
  <2> QED BY <2>1, LeavingKeepsPInv DEF Rollback, Forget, TypeOK, Busy
<1>5. CASE \E h \in Handler : CheckPoint(h)
  <2>1. PICK h \in Handler : CheckPoint(h) BY <1>5
  <2>2. OneVisitPerPoint' BY <2>1 DEF CheckPoint, PInv, OneVisitPerPoint, UsedByOther
  <2>3. PointsFree'
    <3> SUFFICES ASSUME NEW g \in Handler
                 PROVE  /\ stage'[g] = "loaded" => op'[g] \in Pointing
                        /\ stage'[g] # "idle" /\ op'[g] \in Pointing => visit'[on'[g]].place = seen'[g].place
                        /\ stage'[g] = "ready" /\ op'[g] \in Pointing => ~UsedByOther(PointFor(g), on[g])'
        BY DEF PointsFree, Busy, Row, Pointing
    <3>1. /\ op'[g] = op[g] /\ on'[g] = on[g] /\ arg'[g] = arg[g] /\ seen'[g] = seen[g] /\ visit' = visit
          /\ stage'[g] # "idle" => stage[g] # "idle"
          /\ g # h => stage'[g] = stage[g]
          /\ g = h => stage'[g] = "ready" /\ ~UsedByOther(PointFor(g), on[g])
        BY <2>1 DEF CheckPoint, TypeOK
    <3> QED BY <3>1 DEF PInv, PointsFree, Busy, Row, PointFor, UsedByOther
  <2> QED BY <2>2, <2>3 DEF PInv
<1>6. CASE \E h \in Handler : Commit(h)
  <2>1. PICK h \in Handler : Commit(h) BY <1>6
  <2>2. PICK r : /\ Writes(h, r)
                 /\ \/ Forget(h)
                    \/ \E t \in {"extracting", "extracted"} :
                          stage' = [stage EXCEPT ![h] = t] /\ UNCHANGED <<op, on, arg, seen>>
      BY <2>1, CommitIsSound DEF Commits, GoesOn
  <2>3. /\ Busy(h) /\ on[h] \in Visit
        /\ visit'[on[h]] = r /\ \A v \in Visit \ {on[h]} : visit'[v] = visit[v]
        /\ Moves(h, r)
      BY <2>1, <2>2, CommitMoves
  <2>4. \A g \in Handler : stage'[g] # "idle" =>
          /\ Busy(g) /\ op'[g] = op[g] /\ on'[g] = on[g] /\ arg'[g] = arg[g] /\ seen'[g] = seen[g]
          /\ stage'[g] \in {"loaded", "ready"} => stage'[g] = stage[g]
    <3>1. CASE Forget(h) BY <3>1 DEF TypeOK, Forget, Busy
    <3>2. CASE ~Forget(h)
      <4>1. PICK t \in {"extracting", "extracted"} :
               stage' = [stage EXCEPT ![h] = t] /\ UNCHANGED <<op, on, arg, seen>>
          BY <2>2, <3>2
      <4> QED BY <2>3, <4>1 DEF TypeOK, Busy
    <3> QED BY <3>1, <3>2
  <2>5. CASE r.place = Row(h).place /\ r.unloading = Row(h).unloading
    BY <2>3, <2>4, <2>5, LeavingKeepsPInv DEF Row
  <2>6. CASE r.place = Row(h).place /\ r.unloading = "COMPLETED"
    BY <2>3, <2>4, <2>6, LeavingKeepsPInv DEF Row, Active
  <2>7. CASE \/ AssignUnloading(h) /\ r.place = arg[h] /\ r.unloading = "NOT_STARTED"
             \/ StartUnloading(h) /\ r.place = Row(h).place /\ r.unloading = "IN_PROGRESS"
    <3>1. stage[h] = "ready" /\ op[h] \in Pointing /\ Forget(h)
        BY <2>7 DEF AssignUnloading, StartUnloading, Ready, Pointing, Commits
    <3>2. ~UsedByOther(PointFor(h), on[h]) /\ Row(h).place = seen[h].place
        BY <3>1, <2>3 DEF PInv, PointsFree
    <3>3. r.place = PointFor(h) BY <2>7, <3>2 DEF PointFor, AssignUnloading, StartUnloading, Ready
    <3>4. \A w \in Visit \ {on[h]} : visit[w].place = r.place => visit[w].unloading \notin Active
        BY <3>2, <3>3 DEF UsedByOther
    <3>5. OneVisitPerPoint'
      <4> SUFFICES ASSUME NEW v \in Visit, visit'[v].unloading \in Active, NEW w \in Visit \ {v},
                          visit'[w].place = visit'[v].place, visit'[w].unloading \in Active
                   PROVE  FALSE
          BY DEF OneVisitPerPoint, UsedByOther, Active
      <4>1. CASE v = on[h] BY <2>3, <3>4, <4>1
      <4>2. CASE w = on[h] BY <2>3, <3>4, <4>2
      <4>3. CASE v # on[h] /\ w # on[h]
        BY <2>3, <4>3 DEF PInv, OneVisitPerPoint, UsedByOther
      <4> QED BY <4>1, <4>2, <4>3
    <3>6. \A g \in Handler : stage'[g] # "idle" => op'[g] \notin Pointing /\ stage'[g] = stage[g]
      <4>1. \A g \in Handler : stage'[g] # "idle" => g # h /\ stage'[g] = stage[g]
          BY <3>1 DEF Forget, TypeOK
      <4> QED BY <2>3, <2>4, <3>1, <4>1 DEF OneAtThePoints
    <3>7. PointsFree'
      <4>1. \A g \in Handler : stage'[g] # "loaded" BY <2>4, <3>6 DEF PInv, PointsFree
      <4> QED BY <3>6, <4>1 DEF PointsFree, Busy, Pointing
    <3> QED BY <3>5, <3>7 DEF PInv
  <2> QED BY <2>3, <2>5, <2>6, <2>7 DEF Moves
<1>7. CASE UNCHANGED vars
  BY <1>7, LeavingKeepsPInv DEF vars, callVars, Busy
<1> QED BY <1>1, <1>2, <1>3, <1>4, <1>5, <1>6, <1>7 DEF Next

\* As long as requests that take a point do not overlap, assignUnloadingPoint and
\* startUnloading let at most one visit use it, whatever the other requests,
\* those about the same visits included, do meanwhile.
THEOREM OneVisitPerPointCorrect == Spec /\ []OneAtThePoints => []OneVisitPerPoint
<1>1. Init => PInv
  <2> SUFFICES ASSUME Init PROVE PInv OBVIOUS
  <2>1. None # "NOT_STARTED" /\ None # "IN_PROGRESS" BY WorkflowAssumption
  <2> QED BY <2>1 DEF Init, PInv, PointsFree, OneVisitPerPoint, Busy, NoVisit, Active
<1>2. IInv /\ PInv /\ OneAtThePoints /\ [Next]_vars => PInv' BY NextPInv
<1>3. PInv => OneVisitPerPoint BY DEF PInv
<1> QED BY <1>1, <1>2, <1>3, SpecIInv, PTL DEF Spec

-----------------------------------------------------------------------------
(* Copies that are not stale                                               *)

\* The rows a handler works on are those it has loaded, but for the status of
\* the document it extracts.
Fresh ==
    \A h \in Handler :
        /\ stage[h] \in {"loaded", "ready"} => Row(h) = seen[h]
        /\ stage[h] = "extracting" => op[h] = "process" /\ Row(h).documents[arg[h]] = "PROCESSING"
        /\ stage[h] = "extracted"  => op[h] = "process" /\ Row(h).documents[arg[h]] = "EXTRACTED"

\* No operation is open to a visit that has not been created.
LEMMA NothingForNoVisit == \A o, a : ~Accepts(o, NoVisit, a)
<1> SUFFICES ASSUME NEW o, NEW a, Accepts(o, NoVisit, a) PROVE FALSE OBVIOUS
<1>1. /\ NoVisit.status = "ABSENT" /\ NoVisit.gross = None /\ NoVisit.workflow = None
      /\ NoVisit.approvals = {} /\ \A d \in Document : NoVisit.documents[d] = "ABSENT"
    BY DEF NoVisit
<1>2. ~MissesApproval(NoVisit) BY <1>1 DEF MissesApproval, Remaining
<1>3. ~PreUnloading(NoVisit) BY <1>1 DEF PreUnloading
<1> QED
  BY <1>1, <1>2, <1>3 DEF Accepts, CanAssignMaterial, CanRecordFirstWeighment, CanDecide, CanAssignUnloading,
     CanStartUnloading, CanCompleteUnloading, CanRecordSecondWeighment, CanFinalize

\* A visit a handler is about has been created.
LEMMA BusyHasVisit ==
    ASSUME TypeOK, Checked, Fresh, NEW h \in Handler, Busy(h)
    PROVE  Row(h) # NoVisit
<1>1. Accepts(op[h], seen[h], arg[h]) BY DEF Checked, Busy
<1>2. CASE stage[h] \in {"loaded", "ready"} BY <1>1, <1>2, NothingForNoVisit DEF Fresh
<1>3. CASE stage[h] \in {"extracting", "extracted"}
  <2>1. op[h] = "process" /\ Row(h).documents[arg[h]] # "ABSENT" BY <1>3 DEF Fresh
  <2>2. arg[h] \in Document BY <1>1, <2>1 DEF Accepts
  <2> QED BY <2>1, <2>2 DEF NoVisit
<1> QED BY <1>2, <1>3 DEF TypeOK, Busy

\* A step that leaves the visits of the handlers at work alone keeps the
\* copies fresh; h is the handler that takes the step.
LEMMA OthersStayFresh ==
    ASSUME TypeOK, Fresh, NEW h,
           \A g \in Handler \ {h} : stage'[g] # "idle" =>
              /\ stage'[g] = stage[g] /\ op'[g] = op[g] /\ on'[g] = on[g]
              /\ arg'[g] = arg[g] /\ seen'[g] = seen[g] /\ visit'[on[g]] = visit[on[g]],
           h \in Handler =>
              /\ stage'[h] \in {"loaded", "ready"} => visit'[on'[h]] = seen'[h]
              /\ stage'[h] = "extracting" => op'[h] = "process" /\ visit'[on'[h]].documents[arg'[h]] = "PROCESSING"
              /\ stage'[h] = "extracted" => op'[h] = "process" /\ visit'[on'[h]].documents[arg'[h]] = "EXTRACTED"
    PROVE  Fresh'
<1> SUFFICES ASSUME NEW g \in Handler
             PROVE  /\ stage'[g] \in {"loaded", "ready"} => visit'[on'[g]] = seen'[g]
                    /\ stage'[g] = "extracting" => op'[g] = "process" /\ visit'[on'[g]].documents[arg'[g]] = "PROCESSING"
                    /\ stage'[g] = "extracted" => op'[g] = "process" /\ visit'[on'[g]].documents[arg'[g]] = "EXTRACTED"
    BY DEF Fresh, Row
<1>1. CASE g = h BY <1>1
<1>2. CASE g # h BY <1>2 DEF Fresh, Row
<1> QED BY <1>1, <1>2

\* While requests about a visit do not overlap, the copies stay fresh.
LEMMA NextFresh ==
    ASSUME IInv, Fresh, OnePerVisit, [Next]_vars
    PROVE  Fresh'
<1> USE DEF IInv
<1>1. CASE \E v \in Visit : CreateTransaction(v)
  <2>1. PICK v \in Visit : CreateTransaction(v) BY <1>1
  <2>2. \A g \in Handler : stage[g] # "idle" => on[g] \in Visit /\ on[g] # v
      BY <2>1, BusyHasVisit, RowsTyped DEF CreateTransaction, Row, Busy
  <2>3. \A g \in Handler : stage[g] # "idle" => visit'[on[g]] = visit[on[g]]
      BY <2>1, <2>2 DEF CreateTransaction, TypeOK
  <2>4. UNCHANGED callVars BY <2>1 DEF CreateTransaction
  <2> QED BY <2>3, <2>4, OthersStayFresh DEF callVars, Fresh, Row
<1>2. CASE \E p \in Point, s \in PointStatus : UpdateUnloadingPoint(p, s)
  BY <1>2 DEF UpdateUnloadingPoint, callVars, Fresh, Row
<1>3. CASE \E h \in Handler, v \in Visit, o \in Operations, a \in Args : Load(h, v, o, a)
  <2>1. PICK h \in Handler, v \in Visit, o \in Operations, a \in Args : Load(h, v, o, a) BY <1>3
  <2> QED BY <2>1, OthersStayFresh DEF Load, TypeOK
<1>4. CASE \E h \in Handler : Rollback(h) \/ CheckPoint(h)
  <2>1. PICK h \in Handler : Rollback(h) \/ CheckPoint(h) BY <1>4
  <2>2. CASE Rollback(h) BY <2>2, OthersStayFresh DEF Rollback, Forget, TypeOK
  <2>3. CASE CheckPoint(h)
    <3>1. Row(h) = seen[h] BY <2>3 DEF Fresh, CheckPoint
    <3> QED BY <2>3, <3>1, OthersStayFresh DEF CheckPoint, TypeOK, Row
  <2> QED BY <2>1, <2>2, <2>3
<1>5. CASE \E h \in Handler : Commit(h)
  <2>1. PICK h \in Handler : Commit(h) BY <1>5
  <2>2. PICK r : /\ Writes(h, r)
                 /\ Forget(h) \/ \E t \in {"extracting", "extracted"} : GoesOn(h, r, t)
      BY <2>1, CommitIsSound DEF Commits, GoesOn
  <2>3. /\ Busy(h) /\ on[h] \in Visit
        /\ visit'[on[h]] = r /\ \A v \in Visit \ {on[h]} : visit'[v] = visit[v]
      BY <2>1, <2>2, CommitMoves
  <2>4. \A g \in Handler \ {h} : stage[g] # "idle" => on[g] \in Visit /\ visit'[on[g]] = visit[on[g]]
      BY <2>3, RowsTyped DEF OnePerVisit, Busy
  <2>5. CASE Forget(h) BY <2>4, <2>5, OthersStayFresh DEF Forget, TypeOK
  <2>6. CASE ~Forget(h)
    <3>1. PICK t \in {"extracting", "extracted"} : GoesOn(h, r, t) BY <2>2, <2>6
    <3>2. \/ StartExtraction(h) /\ stage'[h] = "extracting"
          \/ StoreExtraction(h) /\ stage'[h] = "extracted"
      <4>1. stage'[h] # "idle" BY <3>1 DEF GoesOn, TypeOK
      <4>2. StartExtraction(h) \/ StoreExtraction(h)
          BY <2>1, <4>1 DEF Commit, Commits, Forget, TypeOK, IdentifyTransaction, UploadDocument, FailExtraction,
             VerifyDocument, RejectDocument, AssignTransactionMaterial, VerifyTransactionMaterial,
             RecordFirstWeighment, EnsureRequiredApproval, ApproveRequest, RejectRequest, AssignUnloading,
             StartUnloading, CompleteUnloading, RecordSecondWeighment, FinalizeTransaction
      <4> QED BY <4>2 DEF StartExtraction, StoreExtraction, GoesOn, TypeOK
    <3>3. op[h] = "process" /\ arg[h] \in Document
      <4>1. op[h] = "process" BY <3>2 DEF StartExtraction, StoreExtraction, Ready, Fresh
      <4>2. Accepts(op[h], seen[h], arg[h]) BY <2>3 DEF Checked, Busy
      <4> QED BY <4>1, <4>2 DEF Accepts
    <3>4. Row(h) \in Rows BY <2>3, RowsTyped DEF Busy
    <3>5. /\ StartExtraction(h) => visit'[on[h]].documents[arg[h]] = "PROCESSING"
          /\ StoreExtraction(h) => visit'[on[h]].documents[arg[h]] = "EXTRACTED"
        BY <2>3, <3>3, <3>4 DEF StartExtraction, StoreExtraction, GoesOn, Writes, TypeOK, Rows
    <3>6. \A g \in Handler \ {h} : stage'[g] = stage[g] BY <3>1 DEF GoesOn, TypeOK
    <3>7. UNCHANGED <<op, on, arg, seen>> BY <3>1 DEF GoesOn
    <3> QED BY <2>4, <3>2, <3>3, <3>5, <3>6, <3>7, OthersStayFresh
  <2> QED BY <2>5, <2>6
<1>6. CASE UNCHANGED vars BY <1>6 DEF vars, callVars, Fresh, Row
<1> QED BY <1>1, <1>2, <1>3, <1>4, <1>5, <1>6 DEF Next

\* Copies are fresh in every state, as long as requests about a visit do not overlap.
LEMMA SpecFresh == Spec /\ []OnePerVisit => []Fresh
<1>1. Init => Fresh BY DEF Init, Fresh
<1>2. IInv /\ Fresh /\ OnePerVisit /\ [Next]_vars => Fresh' BY NextFresh
<1> QED BY <1>1, <1>2, SpecIInv, PTL DEF Spec

\* As long as requests about a visit do not overlap, neither assigning nor
\* verifying the material changes it once the visit is weighed.
THEOREM MaterialFixedCorrect == Spec /\ []OnePerVisit => MaterialIsFixedWhenWeighed
<1>1. ASSUME IInv, Fresh, [Next]_vars, NEW v \in Visit, visit[v].gross # None
      PROVE  visit'[v].material = visit[v].material
  <2> USE DEF IInv
  <2>1. CASE \E w \in Visit : CreateTransaction(w)
    BY <1>1, <2>1 DEF CreateTransaction, TypeOK, Rows
  <2>2. CASE \E h \in Handler : Commit(h)
    <3>1. PICK h \in Handler : Commit(h) BY <2>2
    <3>2. PICK r : Writes(h, r) BY <3>1, CommitIsSound, <1>1 DEF Commits, GoesOn
    <3>3. /\ visit'[on[h]] = r /\ \A w \in Visit \ {on[h]} : visit'[w] = visit[w]
          /\ \/ r.material = Row(h).material
             \/ stage[h] = "ready" /\ op[h] \in {"assignMaterial", "verifyMaterial"}
        BY <1>1, <3>1, <3>2, CommitMoves
    <3>4. ASSUME stage[h] = "ready", op[h] \in {"assignMaterial", "verifyMaterial"}
          PROVE  Row(h).gross = None
      <4>1. Accepts(op[h], Row(h), arg[h]) BY <1>1, <3>4 DEF Checked, Fresh
      <4> QED BY <3>4, <4>1 DEF Accepts, CanAssignMaterial
    <3> QED BY <1>1, <3>3, <3>4 DEF Row
  <2>3. CASE UNCHANGED visit BY <2>3
  <2> QED BY <1>1, <2>1, <2>2, <2>3
       DEF Next, UpdateUnloadingPoint, Load, CheckPoint, Rollback, vars
<1>2. IInv /\ Fresh /\ [Next]_vars =>
         [\A v \in Visit : visit[v].gross # None => visit'[v].material = visit[v].material]_vars
    BY <1>1
<1> QED BY <1>2, SpecIInv, SpecFresh, PTL DEF Spec, MaterialIsFixedWhenWeighed

\* As long as requests about a visit do not overlap, the visit that is the last
\* to leave a point (completeUnloading, or an assignment elsewhere) releases it.
THEOREM PointReleasedCorrect == Spec /\ []OnePerVisit => PointIsReleased
<1>1. ASSUME IInv, Fresh, [Next]_vars, NEW p \in Point, InUse(p), ~InUse(p)'
      PROVE  point'[p] # "OCCUPIED"
  <2> USE DEF IInv
  <2>1. CASE \E w \in Visit : CreateTransaction(w)
    <3>1. \A v \in Visit : visit'[v].place = visit[v].place /\ visit'[v].unloading = visit[v].unloading
        BY <1>1, <2>1 DEF CreateTransaction, TypeOK, Rows
    <3> QED BY <1>1, <3>1 DEF InUse
  <2>2. CASE \E h \in Handler : Commit(h)
    <3>1. PICK h \in Handler : Commit(h) BY <2>2
    <3>2. PICK r : Writes(h, r) BY <3>1, CommitIsSound, <1>1 DEF Commits, GoesOn
    <3>3. /\ on[h] \in Visit /\ visit'[on[h]] = r /\ \A w \in Visit \ {on[h]} : visit'[w] = visit[w]
          /\ Moves(h, r)
        BY <1>1, <3>1, <3>2, CommitMoves
    <3>4. ~UsedByOther(p, on[h]) /\ Row(h).place = p /\ Row(h).unloading \in Active
        BY <1>1, <3>3 DEF InUse, UsedByOther, Row
    <3>5. ~(r.place = p /\ r.unloading \in Active) BY <1>1, <3>3 DEF InUse
    <3>6. p # None BY WorkflowAssumption
    <3>7. CASE AssignUnloading(h) /\ r.place = arg[h] /\ r.unloading = "NOT_STARTED"
      <4>1. seen[h].place = p /\ arg[h] # p
          BY <1>1, <3>4, <3>5, <3>7 DEF AssignUnloading, Ready, Fresh, Active
      <4>2. point' = [Released(p, on[h]) EXCEPT ![arg[h]] = "OCCUPIED"] BY <3>7, <4>1 DEF AssignUnloading
      <4>3. point'[p] = Released(p, on[h])[p] BY <4>1, <4>2, <1>1, ReleasedTyped
      <4> QED BY <1>1, <3>4, <3>6, <4>3 DEF Released, TypeOK
    <3>8. CASE CompleteUnloading(h)
      <4>1. point' = Released(p, on[h]) BY <1>1, <3>4, <3>8 DEF CompleteUnloading, Ready, Fresh
      <4> QED BY <1>1, <3>4, <3>6, <4>1 DEF Released, TypeOK
    <3> QED BY <3>3, <3>4, <3>5, <3>7, <3>8 DEF Moves, Active
  <2>3. CASE UNCHANGED visit BY <1>1, <2>3 DEF InUse
  <2> QED BY <1>1, <2>1, <2>2, <2>3
       DEF Next, UpdateUnloadingPoint, Load, CheckPoint, Rollback, vars
<1>2. IInv /\ Fresh /\ [Next]_vars =>
         [\A p \in Point : InUse(p) /\ ~InUse(p)' => point'[p] # "OCCUPIED"]_vars
    BY <1>1
<1> QED BY <1>2, SpecIInv, SpecFresh, PTL DEF Spec, PointIsReleased

-----------------------------------------------------------------------------
(* The rows of a visit fit together                                        *)

Unweighed == {"ABSENT", "ARRIVED", "IDENTIFIED", "DOCUMENT_PENDING", "DOCUMENT_VERIFIED", "MATERIAL_CLASSIFIED"}
Left      == {"UNLOADED", "SECOND_WEIGHMENT", "COMPLETED", "EXCEPTION"}

\* The status of a visit tells which of its other rows there are.
StatusFits(r) ==
    /\ r.gross = None <=> r.status \in Unweighed
    /\ r.workflow # None /\ r.gross = None <=> r.status = "MATERIAL_CLASSIFIED"
    /\ r.workflow # None => r.material # None
    /\ r.place = None <=> r.unloading = None
    /\ r.unloading = "IN_PROGRESS" <=> r.status = "UNLOADING"
    /\ r.unloading = "COMPLETED" <=> r.status \in Left
    /\ r.tare # None <=> r.status \in Left \ {"UNLOADED"}
    /\ r.tare = "over" <=> r.status = "EXCEPTION"

\* A weighed visit has the documents of its workflow; before, there is some
\* material whose documents it has.
DocumentsFit(r) ==
    /\ r.status = "MATERIAL_CLASSIFIED" => \E m \in Material : DocumentsMet(m, r)
    /\ r.status = "DOCUMENT_VERIFIED" => \E d \in Document : r.documents[d] = "VERIFIED"
    /\ r.gross # None /\ r.workflow # None => DocumentsMet(r.workflow, r)

ApprovalsFit(r) ==
    /\ r.status = "PENDING_APPROVAL" => Remaining(r) # {}
    /\ r.status \in Unloads => r.workflow # None /\ Remaining(r) = {}

Fits(r) == StatusFits(r) /\ DocumentsFit(r) /\ ApprovalsFit(r)

RowsFit == \A v \in Visit : Fits(visit[v])

\* A verified document is never lost, so the documents of a workflow are not either.
LEMMA DocumentsGrow ==
    ASSUME NEW r, NEW s, \A d \in Document : r.documents[d] = "VERIFIED" => s.documents[d] = "VERIFIED", NEW m
    PROVE  DocumentsMet(m, r) => DocumentsMet(m, s)
BY DEF DocumentsMet

\* The more stages are approved, the fewer remain.
LEMMA RemainingShrinks ==
    ASSUME NEW r, NEW s, s.workflow = r.workflow, s.gross = r.gross,
           Decided(r, "APPROVED") \subseteq Decided(s, "APPROVED")
    PROVE  Remaining(s) \subseteq Remaining(r)
BY DEF Remaining

\* A commit that writes documents or approval rows and no status.
LEMMA SameStatusFits ==
    ASSUME NEW r, Fits(r), NEW s,
           s.status = r.status, s.material = r.material, s.workflow = r.workflow, s.gross = r.gross,
           s.tare = r.tare, s.place = r.place, s.unloading = r.unloading,
           \A d \in Document : r.documents[d] = "VERIFIED" => s.documents[d] = "VERIFIED",
           Decided(r, "APPROVED") \subseteq Decided(s, "APPROVED"),
           s.status = "PENDING_APPROVAL" => Remaining(s) # {}
    PROVE  Fits(s)
<1>1. StatusFits(s) BY DEF Fits, StatusFits
<1>2. DocumentsFit(s) BY DocumentsGrow DEF Fits, DocumentsFit
<1>3. ApprovalsFit(s) BY RemainingShrinks DEF Fits, ApprovalsFit
<1> QED BY <1>1, <1>2, <1>3 DEF Fits

\* ensureRequiredApproval keeps the rows fitting together.
LEMMA RequiredApprovalFits ==
    ASSUME NEW r \in Rows, Fits(r)
    PROVE  Fits(WithRequiredApproval(r, r))
<1>1. CASE ~MissesApproval(r) BY <1>1 DEF WithRequiredApproval
<1>2. CASE MissesApproval(r)
  <2> DEFINE a == r.approvals \cup {<<First(Remaining(r)), "PENDING">>}
             t == IF r.status = "FIRST_WEIGHMENT" THEN "PENDING_APPROVAL" ELSE r.status
             s == [r EXCEPT !.approvals = a, !.status = t]
  <2>1. WithRequiredApproval(r, r) = s BY <1>2 DEF WithRequiredApproval
  <2>2. \A x : <<x, "APPROVED">> \in a <=> <<x, "APPROVED">> \in r.approvals OBVIOUS
  <2> HIDE DEF a
  <2>3. s.status = t /\ s.approvals = a BY DEF Rows
  <2>4. /\ s.documents = r.documents /\ s.material = r.material /\ s.workflow = r.workflow
        /\ s.gross = r.gross /\ s.tare = r.tare /\ s.place = r.place /\ s.unloading = r.unloading
      BY DEF Rows
  <2> HIDE DEF s
  <2>5. Decided(s, "APPROVED") = Decided(r, "APPROVED") BY <2>2, <2>3 DEF Decided
  <2>6. Remaining(s) # {} BY <1>2, <2>4, <2>5 DEF MissesApproval, Remaining
  <2>7. CASE r.status # "FIRST_WEIGHMENT" BY <2>1, <2>3, <2>4, <2>5, <2>6, <2>7, SameStatusFits
  <2>8. CASE r.status = "FIRST_WEIGHMENT"
    <3>1. s.status = "PENDING_APPROVAL" BY <2>3, <2>8
    <3>2. StatusFits(s) BY <2>4, <2>8, <3>1 DEF Fits, StatusFits, Unweighed, Left
    <3>3. DocumentsFit(s) BY <2>4, <3>1, DocumentsGrow DEF Fits, DocumentsFit
    <3>4. ApprovalsFit(s) BY <2>6, <3>1 DEF ApprovalsFit, Unloads
    <3> QED BY <2>1, <3>2, <3>3, <3>4 DEF Fits
  <2> QED BY <2>1, <2>7, <2>8
<1> QED BY <1>1, <1>2

\* What a handler with fresh rows commits fits together again.
LEMMA CommitFits ==
    ASSUME TypeOK, Checked, Fresh, NEW h \in Handler, Fits(Row(h)), Commit(h), NEW r, Writes(h, r)
    PROVE  Fits(r)
<1>1. Busy(h) BY CommitIsSound DEF Busy
<1>2. on[h] \in Visit /\ Row(h) \in Rows /\ seen[h] \in Rows BY <1>1, RowsTyped DEF Busy
<1>3. ASSUME NEW q, Writes(h, q) PROVE q = r
    BY <1>2, <1>3 DEF Writes, TypeOK
<1>4. Accepts(op[h], seen[h], arg[h]) BY <1>1 DEF Checked, Busy
<1>5. stage[h] = "ready" => seen[h] = Row(h) /\ Accepts(op[h], Row(h), arg[h]) BY <1>4 DEF Fresh
<1>6. CASE IdentifyTransaction(h)
  <2> DEFINE s == [Row(h) EXCEPT !.status = "IDENTIFIED"]
  <2>1. s = r BY <1>3, <1>6 DEF IdentifyTransaction, Commits
  <2>2. Row(h).status = "ARRIVED" BY <1>5, <1>6 DEF IdentifyTransaction, Ready, Accepts
  <2>3. /\ s.status = "IDENTIFIED" /\ s.documents = Row(h).documents /\ s.material = Row(h).material
        /\ s.workflow = Row(h).workflow /\ s.gross = Row(h).gross /\ s.tare = Row(h).tare
        /\ s.place = Row(h).place /\ s.unloading = Row(h).unloading
      BY <1>2 DEF Rows
  <2> HIDE DEF s
  <2>4. StatusFits(s) BY <2>2, <2>3 DEF Fits, StatusFits, Unweighed, Left
  <2>5. DocumentsFit(s) BY <2>2, <2>3, DocumentsGrow DEF Fits, DocumentsFit
  <2>6. ApprovalsFit(s) BY <2>3 DEF ApprovalsFit, Unloads
  <2> QED BY <2>1, <2>4, <2>5, <2>6 DEF Fits
<1>7. CASE \E d \in Document : UploadDocument(h, d)
  <2>1. PICK d \in Document : UploadDocument(h, d) BY <1>7
  <2> DEFINE t == IF Row(h).status = "IDENTIFIED" THEN "DOCUMENT_PENDING" ELSE Row(h).status
             s == [Row(h) EXCEPT !.documents[d] = "UPLOADED", !.status = t]
  <2>2. Row(h).status \in {"IDENTIFIED", "DOCUMENT_PENDING"} /\ seen[h] = Row(h)
      BY <1>5, <2>1 DEF UploadDocument, Ready, Accepts
  <2>3. s = r BY <1>3, <2>1, <2>2 DEF UploadDocument, Commits
  <2>4. /\ s.status = "DOCUMENT_PENDING" /\ s.material = Row(h).material
        /\ s.workflow = Row(h).workflow /\ s.gross = Row(h).gross /\ s.tare = Row(h).tare
        /\ s.place = Row(h).place /\ s.unloading = Row(h).unloading
      BY <1>2, <2>2 DEF Rows
  <2> HIDE DEF s
  <2>5. StatusFits(s) BY <2>2, <2>4 DEF Fits, StatusFits, Unweighed, Left
  <2>6. DocumentsFit(s) BY <2>4, <2>5 DEF DocumentsFit, StatusFits, Unweighed
  <2>7. ApprovalsFit(s) BY <2>4 DEF ApprovalsFit, Unloads
  <2> QED BY <2>3, <2>5, <2>6, <2>7 DEF Fits
<1>8. CASE StartExtraction(h) \/ StoreExtraction(h) \/ FailExtraction(h) \/ RejectDocument(h)
  <2>1. PICK t \in DocumentStatus : Writes(h, [Row(h) EXCEPT !.documents[arg[h]] = t])
      BY <1>8 DEF StartExtraction, StoreExtraction, FailExtraction, RejectDocument, GoesOn, Commits, DocumentStatus
  <2> DEFINE s == [Row(h) EXCEPT !.documents[arg[h]] = t]
  <2>2. s = r BY <1>3, <2>1
  <2>3. Row(h).documents[arg[h]] # "VERIFIED"
    <3>1. CASE StartExtraction(h) \/ RejectDocument(h)
      BY <1>5, <3>1 DEF StartExtraction, RejectDocument, Ready, Accepts
    <3>2. CASE StoreExtraction(h) \/ FailExtraction(h)
      BY <3>2 DEF StoreExtraction, FailExtraction, Fresh
    <3> QED BY <1>8, <3>1, <3>2
  <2>4. /\ s.status = Row(h).status /\ s.material = Row(h).material
        /\ s.workflow = Row(h).workflow /\ s.gross = Row(h).gross /\ s.tare = Row(h).tare
        /\ s.place = Row(h).place /\ s.unloading = Row(h).unloading /\ s.approvals = Row(h).approvals
      BY <1>2 DEF Rows
  <2>5. \A d \in Document : Row(h).documents[d] = "VERIFIED" => s.documents[d] = "VERIFIED"
      BY <1>2, <2>3 DEF Rows
  <2> HIDE DEF s
  <2>6. Decided(s, "APPROVED") = Decided(Row(h), "APPROVED") BY <2>4 DEF Decided
  <2>7. Remaining(s) = Remaining(Row(h)) BY <2>4, <2>6 DEF Remaining
  <2> QED BY <2>2, <2>4, <2>5, <2>6, <2>7, SameStatusFits DEF Fits, ApprovalsFit
<1>9. CASE VerifyDocument(h)
  <2> DEFINE s == [Row(h) EXCEPT !.documents[arg[h]] = "VERIFIED", !.status = "DOCUMENT_VERIFIED"]
  <2>1. s = r BY <1>3, <1>9 DEF VerifyDocument, Commits
  <2>2. Row(h).status = "DOCUMENT_PENDING" /\ arg[h] \in Document
      BY <1>5, <1>9 DEF VerifyDocument, Ready, Accepts
  <2>3. /\ s.status = "DOCUMENT_VERIFIED" /\ s.material = Row(h).material
        /\ s.workflow = Row(h).workflow /\ s.gross = Row(h).gross /\ s.tare = Row(h).tare
        /\ s.place = Row(h).place /\ s.unloading = Row(h).unloading
      BY <1>2 DEF Rows
  <2>4. s.documents[arg[h]] = "VERIFIED" BY <1>2, <2>2 DEF Rows
  <2> HIDE DEF s
  <2>5. StatusFits(s) BY <2>2, <2>3 DEF Fits, StatusFits, Unweighed, Left
  <2>6. DocumentsFit(s) BY <2>2, <2>3, <2>4, <2>5 DEF DocumentsFit, StatusFits, Unweighed
  <2>7. ApprovalsFit(s) BY <2>3 DEF ApprovalsFit, Unloads
  <2> QED BY <2>1, <2>5, <2>6, <2>7 DEF Fits
<1>10. CASE AssignTransactionMaterial(h)
  <2> DEFINE s == [Row(h) EXCEPT !.material = arg[h], !.workflow = arg[h], !.status = "MATERIAL_CLASSIFIED"]
  <2>1. s = r BY <1>3, <1>10 DEF AssignTransactionMaterial, Commits
  <2>2. arg[h] \in Material /\ CanAssignMaterial(Row(h), arg[h])
      BY <1>5, <1>10 DEF AssignTransactionMaterial, Ready, Accepts
  <2>3. /\ s.status = "MATERIAL_CLASSIFIED" /\ s.material = arg[h] /\ s.documents = Row(h).documents
        /\ s.workflow = arg[h] /\ s.gross = Row(h).gross /\ s.tare = Row(h).tare
        /\ s.place = Row(h).place /\ s.unloading = Row(h).unloading
      BY <1>2 DEF Rows
  <2>4. arg[h] # None BY <2>2, WorkflowAssumption
  <2> HIDE DEF s
  <2>5. StatusFits(s) BY <2>2, <2>3, <2>4 DEF Fits, StatusFits, Unweighed, Left, CanAssignMaterial
  <2>6. DocumentsFit(s) BY <2>2, <2>3, DocumentsGrow DEF DocumentsFit, CanAssignMaterial
  <2>7. ApprovalsFit(s) BY <2>3 DEF ApprovalsFit, Unloads
  <2> QED BY <2>1, <2>5, <2>6, <2>7 DEF Fits
<1>11. CASE VerifyTransactionMaterial(h)
  <2> DEFINE m == IF arg[h] = seen[h].workflow THEN Row(h).material ELSE arg[h]
             s == [Row(h) EXCEPT !.workflow = arg[h], !.material = m]
  <2>1. s = r BY <1>3, <1>11 DEF VerifyTransactionMaterial, Commits
  <2>2. /\ arg[h] \in Material /\ Row(h).workflow # None /\ Row(h).gross = None
        /\ Row(h).status = "MATERIAL_CLASSIFIED"
      BY <1>5, <1>11 DEF VerifyTransactionMaterial, Ready, Accepts
  <2>3. arg[h] # None BY <2>2, WorkflowAssumption
  <2>4. m # None BY <2>2, <2>3 DEF Fits, StatusFits
  <2> HIDE DEF m
  <2>5. /\ s.status = Row(h).status /\ s.material = m /\ s.documents = Row(h).documents
        /\ s.workflow = arg[h] /\ s.gross = Row(h).gross /\ s.tare = Row(h).tare
        /\ s.place = Row(h).place /\ s.unloading = Row(h).unloading
      BY <1>2 DEF Rows
  <2> HIDE DEF s
  <2>6. StatusFits(s) BY <2>2, <2>3, <2>4, <2>5 DEF Fits, StatusFits
  <2>7. DocumentsFit(s) BY <2>2, <2>5, DocumentsGrow DEF Fits, DocumentsFit
  <2>8. ApprovalsFit(s) BY <2>2, <2>5 DEF ApprovalsFit, Unloads
  <2> QED BY <2>1, <2>6, <2>7, <2>8 DEF Fits
<1>12. CASE \E weight \in {"light", "heavy"} : RecordFirstWeighment(h, weight)
  <2>1. PICK weight \in {"light", "heavy"} : RecordFirstWeighment(h, weight) BY <1>12
  <2> DEFINE s == [Row(h) EXCEPT !.gross = weight, !.status = "FIRST_WEIGHMENT"]
  <2>2. WithRequiredApproval(s, s) = r BY <1>3, <2>1 DEF RecordFirstWeighment, Commits
  <2>3. CanRecordFirstWeighment(Row(h)) BY <1>5, <2>1 DEF RecordFirstWeighment, Ready, Accepts
  <2>4. weight # None BY WorkflowAssumption
  <2>5. s \in Rows BY <1>2 DEF Rows, Statuses
  <2>6. /\ s.status = "FIRST_WEIGHMENT" /\ s.material = Row(h).material /\ s.documents = Row(h).documents
        /\ s.workflow = Row(h).workflow /\ s.gross = weight /\ s.tare = Row(h).tare
        /\ s.place = Row(h).place /\ s.unloading = Row(h).unloading
      BY <1>2 DEF Rows
  <2> HIDE DEF s
  <2>7. StatusFits(s) BY <2>3, <2>4, <2>6 DEF Fits, StatusFits, Unweighed, Left, CanRecordFirstWeighment
  <2>8. DocumentsFit(s) BY <2>3, <2>6, DocumentsGrow DEF DocumentsFit, CanRecordFirstWeighment
  <2>9. ApprovalsFit(s) BY <2>6 DEF ApprovalsFit, Unloads
  <2> QED BY <2>2, <2>5, <2>7, <2>8, <2>9, RequiredApprovalFits DEF Fits
<1>13. CASE EnsureRequiredApproval(h)
  <2>1. seen[h] = Row(h) BY <1>5, <1>13 DEF EnsureRequiredApproval, Ready
  <2>2. WithRequiredApproval(Row(h), Row(h)) = r BY <1>3, <1>13, <2>1 DEF EnsureRequiredApproval, Commits
  <2> QED BY <1>2, <2>2, RequiredApprovalFits
<1>14. CASE ApproveRequest(h)
  <2> DEFINE c == Claimed(h, arg[h], "APPROVED")
             q == [Row(h) EXCEPT !.approvals = c]
             s == IF Remaining(q) # {} THEN WithRequiredApproval(q, q)
                  ELSE IF CanTransition(q.status, "APPROVED") THEN [q EXCEPT !.status = "APPROVED"]
                  ELSE q
  <2>1. c \in SUBSET (Stages \X Decisions)
      BY <1>1, <1>14, ClaimedTyped DEF ApproveRequest, Decisions, Busy
  <2>2. s = r BY <1>3, <1>14 DEF ApproveRequest, Commits
  <2>3. CanDecide(Row(h), arg[h]) BY <1>5, <1>14 DEF ApproveRequest, Ready, Accepts
  <2>4. \A x : <<x, "APPROVED">> \in Row(h).approvals => <<x, "APPROVED">> \in c BY DEF Claimed
  <2> HIDE DEF c
  <2>5. q \in Rows BY <1>2, <2>1 DEF Rows
  <2>6. /\ q.status = Row(h).status /\ q.material = Row(h).material /\ q.documents = Row(h).documents
        /\ q.workflow = Row(h).workflow /\ q.gross = Row(h).gross /\ q.tare = Row(h).tare
        /\ q.place = Row(h).place /\ q.unloading = Row(h).unloading /\ q.approvals = c
      BY <1>2 DEF Rows
  <2> HIDE DEF q
  <2>7. Decided(Row(h), "APPROVED") \subseteq Decided(q, "APPROVED") BY <2>4, <2>6 DEF Decided
  <2>8. CASE Remaining(q) # {}
    <3>1. Fits(q) BY <2>6, <2>7, <2>8, SameStatusFits
    <3> QED BY <2>2, <2>5, <2>8, <3>1, RequiredApprovalFits
  <2>9. CASE Remaining(q) = {} /\ q.status # "PENDING_APPROVAL"
    <3>1. Fits(q) BY <2>6, <2>7, <2>9, SameStatusFits
    <3>2. q.status \in Statuses
      <4>1. q.gross # None BY <2>3, <2>6 DEF CanDecide
      <4>2. q.status # "ABSENT" BY <3>1, <4>1 DEF Fits, StatusFits, Unweighed
      <4> QED BY <2>5, <4>2 DEF Rows
    <3>3. ~CanTransition(q.status, "APPROVED") BY <2>9, <3>2 DEF CanTransition, Successors, Statuses
    <3> QED BY <2>2, <2>9, <3>1, <3>3
  <2>10. CASE Remaining(q) = {} /\ q.status = "PENDING_APPROVAL"
    <3>1. CanTransition(q.status, "APPROVED") BY <2>10 DEF CanTransition, Successors
    <3>2. r = [q EXCEPT !.status = "APPROVED"] BY <2>2, <2>10, <3>1
    <3>3. /\ r.status = "APPROVED" /\ r.material = Row(h).material /\ r.documents = Row(h).documents
          /\ r.workflow = Row(h).workflow /\ r.gross = Row(h).gross /\ r.tare = Row(h).tare
          /\ r.place = Row(h).place /\ r.unloading = Row(h).unloading
        BY <2>5, <2>6, <3>2 DEF Rows
    <3>4. StatusFits(r) BY <2>6, <2>10, <3>3 DEF Fits, StatusFits, Unweighed, Left
    <3>5. DocumentsFit(r) BY <3>3, DocumentsGrow DEF Fits, DocumentsFit
    <3>6. ApprovalsFit(r) BY <3>3 DEF ApprovalsFit, Unloads
    <3> QED BY <3>4, <3>5, <3>6 DEF Fits
  <2> QED BY <2>8, <2>9, <2>10
<1>15. CASE RejectRequest(h)
  <2> DEFINE c == Claimed(h, arg[h], "REJECTED")
             t == IF CanTransition(Row(h).status, "REJECTED") THEN "REJECTED" ELSE Row(h).status
             s == [Row(h) EXCEPT !.approvals = c, !.status = t]
  <2>1. seen[h] = Row(h) /\ CanDecide(Row(h), arg[h]) BY <1>5, <1>15 DEF RejectRequest, Ready, Accepts
  <2>2. s = r BY <1>3, <1>15, <2>1 DEF RejectRequest, Commits
  <2>3. \A x : <<x, "APPROVED">> \in Row(h).approvals <=> <<x, "APPROVED">> \in c BY DEF Claimed
  <2> HIDE DEF c
  <2>4. /\ s.status = t /\ s.material = Row(h).material /\ s.documents = Row(h).documents
        /\ s.workflow = Row(h).workflow /\ s.gross = Row(h).gross /\ s.tare = Row(h).tare
        /\ s.place = Row(h).place /\ s.unloading = Row(h).unloading /\ s.approvals = c
      BY <1>2 DEF Rows
  <2> HIDE DEF s
  <2>5. Decided(s, "APPROVED") = Decided(Row(h), "APPROVED") BY <2>3, <2>4 DEF Decided
  <2>6. Remaining(s) = Remaining(Row(h)) BY <2>4, <2>5 DEF Remaining
  <2>7. CASE t = Row(h).status
    BY <2>2, <2>4, <2>5, <2>6, <2>7, SameStatusFits DEF Fits, ApprovalsFit
  <2>8. CASE t # Row(h).status
    <3>1. Row(h).gross # None BY <2>1 DEF CanDecide
    <3>2. Row(h).status \in Statuses \ Unweighed
      BY <1>2, <3>1 DEF Fits, StatusFits, Rows, Unweighed
    <3>3. Row(h).status = "PENDING_APPROVAL" /\ s.status = "REJECTED"
      BY <2>4, <2>8, <3>2 DEF CanTransition, Successors, Statuses, Unweighed
    <3>4. StatusFits(s) BY <2>4, <3>3 DEF Fits, StatusFits, Unweighed, Left
    <3>5. DocumentsFit(s) BY <2>4, <3>3, DocumentsGrow DEF Fits, DocumentsFit
    <3>6. ApprovalsFit(s) BY <3>3 DEF ApprovalsFit, Unloads
    <3> QED BY <2>2, <3>4, <3>5, <3>6 DEF Fits
  <2> QED BY <2>7, <2>8
<1>16. CASE AssignUnloading(h)
  <2> DEFINE s == [Row(h) EXCEPT !.place = arg[h], !.unloading = "NOT_STARTED"]
  <2>1. s = r BY <1>3, <1>16 DEF AssignUnloading, Commits
  <2>2. arg[h] \in Point /\ CanAssignUnloading(Row(h)) BY <1>5, <1>16 DEF AssignUnloading, Ready, Accepts
  <2>3. arg[h] # None /\ None # "NOT_STARTED" BY <2>2, WorkflowAssumption
  <2>4. /\ s.status = Row(h).status /\ s.material = Row(h).material /\ s.documents = Row(h).documents
        /\ s.workflow = Row(h).workflow /\ s.gross = Row(h).gross /\ s.tare = Row(h).tare
        /\ s.place = arg[h] /\ s.unloading = "NOT_STARTED" /\ s.approvals = Row(h).approvals
      BY <1>2 DEF Rows
  <2>5. Row(h).status \in {"APPROVED", "FIRST_WEIGHMENT"} BY <2>2 DEF CanAssignUnloading
  <2> HIDE DEF s
  <2>6. StatusFits(s) BY <2>3, <2>4, <2>5 DEF Fits, StatusFits, Unweighed, Left
  <2>7. DocumentsFit(s) BY <2>4, DocumentsGrow DEF Fits, DocumentsFit
  <2>8. ApprovalsFit(s) BY <2>4, <2>5 DEF ApprovalsFit, Unloads
  <2> QED BY <2>1, <2>6, <2>7, <2>8 DEF Fits
<1>17. CASE StartUnloading(h)
  <2> DEFINE s == [Row(h) EXCEPT !.unloading = "IN_PROGRESS", !.status = "UNLOADING"]
  <2>1. s = r BY <1>3, <1>17 DEF StartUnloading, Commits
  <2>2. CanStartUnloading(Row(h)) BY <1>5, <1>17 DEF StartUnloading, Ready, Accepts
  <2>3. None # "IN_PROGRESS" BY WorkflowAssumption
  <2>4. /\ s.status = "UNLOADING" /\ s.material = Row(h).material /\ s.documents = Row(h).documents
        /\ s.workflow = Row(h).workflow /\ s.gross = Row(h).gross /\ s.tare = Row(h).tare
        /\ s.place = Row(h).place /\ s.unloading = "IN_PROGRESS" /\ s.approvals = Row(h).approvals
      BY <1>2 DEF Rows
  <2> HIDE DEF s
  <2>5. StatusFits(s)
      BY <2>2, <2>3, <2>4 DEF Fits, StatusFits, Unweighed, Left, CanStartUnloading
  <2>6. DocumentsFit(s) BY <2>4, DocumentsGrow DEF Fits, DocumentsFit
  <2>7. Remaining(s) = Remaining(Row(h)) BY <2>4 DEF Remaining, Decided
  <2>8. ApprovalsFit(s) BY <2>2, <2>4, <2>7 DEF ApprovalsFit, CanStartUnloading, PreUnloading
  <2> QED BY <2>1, <2>5, <2>6, <2>8 DEF Fits
<1>18. CASE CompleteUnloading(h)
  <2> DEFINE s == [Row(h) EXCEPT !.unloading = "COMPLETED", !.status = "UNLOADED"]
  <2>1. s = r BY <1>3, <1>18 DEF CompleteUnloading, Commits
  <2>2. CanCompleteUnloading(Row(h)) BY <1>5, <1>18 DEF CompleteUnloading, Ready, Accepts
  <2>3. None # "COMPLETED" BY WorkflowAssumption
  <2>4. /\ s.status = "UNLOADED" /\ s.material = Row(h).material /\ s.documents = Row(h).documents
        /\ s.workflow = Row(h).workflow /\ s.gross = Row(h).gross /\ s.tare = Row(h).tare
        /\ s.place = Row(h).place /\ s.unloading = "COMPLETED" /\ s.approvals = Row(h).approvals
      BY <1>2 DEF Rows
  <2> HIDE DEF s
  <2>5. StatusFits(s) BY <2>2, <2>3, <2>4 DEF Fits, StatusFits, Unweighed, Left, CanCompleteUnloading
  <2>6. DocumentsFit(s) BY <2>4, DocumentsGrow DEF Fits, DocumentsFit
  <2>7. Remaining(s) = Remaining(Row(h)) BY <2>4 DEF Remaining, Decided
  <2>8. ApprovalsFit(s) BY <2>2, <2>4, <2>7 DEF Fits, ApprovalsFit, CanCompleteUnloading, Unloads
  <2> QED BY <2>1, <2>5, <2>6, <2>8 DEF Fits
<1>19. CASE \E outcome \in {"ok", "over"} : RecordSecondWeighment(h, outcome)
  <2>1. PICK outcome \in {"ok", "over"} : RecordSecondWeighment(h, outcome) BY <1>19
  <2> DEFINE t == IF outcome = "ok" THEN "SECOND_WEIGHMENT" ELSE "EXCEPTION"
             s == [Row(h) EXCEPT !.tare = outcome, !.status = t]
  <2>2. s = r BY <1>3, <2>1 DEF RecordSecondWeighment, Commits
  <2>3. CanRecordSecondWeighment(Row(h)) BY <1>5, <2>1 DEF RecordSecondWeighment, Ready, Accepts
  <2>4. outcome # None BY WorkflowAssumption
  <2>5. /\ s.status = t /\ s.material = Row(h).material /\ s.documents = Row(h).documents
        /\ s.workflow = Row(h).workflow /\ s.gross = Row(h).gross /\ s.tare = outcome
        /\ s.place = Row(h).place /\ s.unloading = Row(h).unloading /\ s.approvals = Row(h).approvals
      BY <1>2 DEF Rows
  <2> HIDE DEF s
  <2>6. StatusFits(s) BY <2>3, <2>4, <2>5 DEF Fits, StatusFits, Unweighed, Left, CanRecordSecondWeighment
  <2>7. DocumentsFit(s) BY <2>5, DocumentsGrow DEF Fits, DocumentsFit
  <2>8. Remaining(s) = Remaining(Row(h)) BY <2>5 DEF Remaining, Decided
  <2>9. ApprovalsFit(s) BY <2>3, <2>5, <2>8 DEF Fits, ApprovalsFit, CanRecordSecondWeighment, Unloads
  <2> QED BY <2>2, <2>6, <2>7, <2>9 DEF Fits
<1>20. CASE FinalizeTransaction(h)
  <2> DEFINE s == [Row(h) EXCEPT !.status = "COMPLETED"]
  <2>1. s = r BY <1>3, <1>20 DEF FinalizeTransaction, Commits
  <2>2. Row(h).status = "SECOND_WEIGHMENT" BY <1>20 DEF FinalizeTransaction
  <2>3. /\ s.status = "COMPLETED" /\ s.material = Row(h).material /\ s.documents = Row(h).documents
        /\ s.workflow = Row(h).workflow /\ s.gross = Row(h).gross /\ s.tare = Row(h).tare
        /\ s.place = Row(h).place /\ s.unloading = Row(h).unloading /\ s.approvals = Row(h).approvals
      BY <1>2 DEF Rows
  <2> HIDE DEF s
  <2>4. StatusFits(s) BY <2>2, <2>3 DEF Fits, StatusFits, Unweighed, Left
  <2>5. DocumentsFit(s) BY <2>3, DocumentsGrow DEF Fits, DocumentsFit
  <2>6. Remaining(s) = Remaining(Row(h)) BY <2>3 DEF Remaining, Decided
  <2>7. ApprovalsFit(s) BY <2>2, <2>3, <2>6 DEF Fits, ApprovalsFit, Unloads
  <2> QED BY <2>1, <2>4, <2>5, <2>7 DEF Fits
<1> QED
  BY <1>6, <1>7, <1>8, <1>9, <1>10, <1>11, <1>12, <1>13, <1>14, <1>15, <1>16, <1>17, <1>18, <1>19, <1>20,
     Commit(h) DEF Commit

\* While requests about a visit do not overlap, every step keeps the rows of
\* all visits fitting together.
LEMMA NextFits ==
    ASSUME IInv, Fresh, RowsFit, [Next]_vars
    PROVE  RowsFit'
<1> USE DEF IInv
<1>1. CASE \E v \in Visit : CreateTransaction(v)
  <2>1. PICK v \in Visit : CreateTransaction(v) BY <1>1
  <2> DEFINE s == [NoVisit EXCEPT !.status = "ARRIVED"]
  <2>2. visit' = [visit EXCEPT ![v] = s] BY <2>1 DEF CreateTransaction
  <2>3. s.status = "ARRIVED" /\ s.gross = None /\ s.workflow = None /\ s.tare = None /\ s.place = None /\ s.unloading = None
      BY DEF NoVisit
  <2> HIDE DEF s
  <2>4. /\ None # "over" /\ None # "IN_PROGRESS" /\ None # "COMPLETED" BY WorkflowAssumption
  <2>5. Fits(s) BY <2>3, <2>4 DEF Fits, StatusFits, DocumentsFit, ApprovalsFit, Unweighed, Left, Unloads
  <2> QED BY <2>2, <2>5 DEF RowsFit, TypeOK
<1>2. CASE \E h \in Handler : Commit(h)
  <2>1. PICK h \in Handler : Commit(h) BY <1>2
  <2>2. PICK r : Writes(h, r) BY <2>1, CommitIsSound DEF Commits, GoesOn
  <2>3. on[h] \in Visit /\ visit'[on[h]] = r /\ \A w \in Visit \ {on[h]} : visit'[w] = visit[w]
      BY <2>1, <2>2, CommitMoves
  <2>4. Fits(Row(h)) BY <2>3 DEF RowsFit, Row
  <2>5. Fits(r) BY <2>1, <2>2, <2>4, CommitFits
  <2> QED BY <2>3, <2>5 DEF RowsFit
<1>3. CASE UNCHANGED visit BY <1>3 DEF RowsFit
<1> QED BY <1>1, <1>2, <1>3 DEF Next, UpdateUnloadingPoint, Load, CheckPoint, Rollback, vars

\* The rows fit together in every state, as long as requests about a visit do
\* not overlap.
LEMMA SpecFits == Spec /\ []OnePerVisit => []RowsFit
<1>1. Init => RowsFit
  <2> SUFFICES ASSUME Init, NEW v \in Visit PROVE Fits(visit[v]) BY DEF RowsFit
  <2>1. visit[v] = NoVisit BY DEF Init
  <2>2. /\ NoVisit.status = "ABSENT" /\ NoVisit.gross = None /\ NoVisit.workflow = None
        /\ NoVisit.tare = None /\ NoVisit.place = None /\ NoVisit.unloading = None
      BY DEF NoVisit
  <2>3. None # "over" /\ None # "IN_PROGRESS" /\ None # "COMPLETED" BY WorkflowAssumption
  <2> QED BY <2>1, <2>2, <2>3 DEF Fits, StatusFits, DocumentsFit, ApprovalsFit, Unweighed, Left, Unloads
<1>2. IInv /\ Fresh /\ RowsFit /\ [Next]_vars => RowsFit' BY NextFits
<1> QED BY <1>1, <1>2, SpecIInv, SpecFresh, PTL DEF Spec

\* As long as requests about a visit do not overlap, no truck unloads that was not
\* weighed, or lacks a document or an approval that its workflow asks for.
THEOREM GatesHoldCorrect == Spec /\ []OnePerVisit => []GatesHold
<1>1. RowsFit => GatesHold
  <2> SUFFICES ASSUME RowsFit, NEW v \in Visit, visit[v].status \in Unloads
               PROVE  /\ visit[v].gross # None /\ visit[v].workflow # None
                      /\ DocumentsMet(visit[v].workflow, visit[v])
                      /\ Remaining(visit[v]) = {}
      BY DEF GatesHold
  <2>1. Fits(visit[v]) BY DEF RowsFit
  <2>2. visit[v].gross # None BY <2>1 DEF Fits, StatusFits, Unweighed, Unloads
  <2>3. visit[v].workflow # None /\ Remaining(visit[v]) = {} BY <2>1 DEF Fits, ApprovalsFit
  <2> QED BY <2>1, <2>2, <2>3 DEF Fits, DocumentsFit
<1> QED BY <1>1, SpecFits, PTL

-----------------------------------------------------------------------------
(* What is next for a visit can be done                                    *)

\* The code of a table is that of its first condition that holds ...
LEMMA FirstThatHoldsIs ==
    ASSUME NEW t, NEW n \in Nat, DOMAIN t = 1..n, NEW k \in 1..n, t[k][1],
           \A j \in 1..(k - 1) : ~t[j][1]
    PROVE  FirstThatHolds(t) = t[k][2]
<1> DEFINE P(i) == t[i][1] /\ \A j \in 1..(i - 1) : ~t[j][1]
           c == CHOOSE i \in DOMAIN t : P(i)
<1>1. k \in DOMAIN t /\ P(k) OBVIOUS
<1>2. c \in DOMAIN t /\ P(c) BY <1>1
<1>3. c = k BY <1>2
<1> QED BY <1>3 DEF FirstThatHolds

\* ... in a table of ten and of five conditions, of which the last one holds.
LEMMA FirstOfTen ==
    ASSUME NEW t, DOMAIN t = 1..10, t[10][1]
    PROVE  FirstThatHolds(t) =
             IF t[1][1] THEN t[1][2] ELSE IF t[2][1] THEN t[2][2] ELSE IF t[3][1] THEN t[3][2]
             ELSE IF t[4][1] THEN t[4][2] ELSE IF t[5][1] THEN t[5][2] ELSE IF t[6][1] THEN t[6][2]
             ELSE IF t[7][1] THEN t[7][2] ELSE IF t[8][1] THEN t[8][2] ELSE IF t[9][1] THEN t[9][2]
             ELSE t[10][2]
<1>1. \A k \in 1..10 : t[k][1] /\ (\A j \in 1..(k - 1) : ~t[j][1]) => FirstThatHolds(t) = t[k][2]
    BY FirstThatHoldsIs
<1> QED BY <1>1

\* The same of the five cases a visit without a workflow has.
LEMMA FirstOfFive ==
    ASSUME NEW t, DOMAIN t = 1..5, t[5][1]
    PROVE  FirstThatHolds(t) =
             IF t[1][1] THEN t[1][2] ELSE IF t[2][1] THEN t[2][2] ELSE IF t[3][1] THEN t[3][2]
             ELSE IF t[4][1] THEN t[4][2] ELSE t[5][2]
<1>1. \A k \in 1..5 : t[k][1] /\ (\A j \in 1..(k - 1) : ~t[j][1]) => FirstThatHolds(t) = t[k][2]
    BY FirstThatHoldsIs
<1> QED BY <1>1

\* resolveNextAction of a visit with a workflow, as nested conditions.
LEMMA NextStepIs ==
    ASSUME NEW r
    PROVE  NextStep(r) =
     IF r.gross = None /\ ~DocumentsMet(r.workflow, r) THEN "upload_document"
     ELSE IF r.gross = None THEN "record_gross"
     ELSE IF IsRejected(r) \/ r.status = "REJECTED" THEN "blocked"
     ELSE IF Remaining(r) # {} THEN "await_approval"
     ELSE IF r.status = "EXCEPTION" \/ r.tare = "over" THEN "review_exception"
     ELSE IF r.place = None THEN "assign_unloading"
     ELSE IF r.unloading \notin {"IN_PROGRESS", "COMPLETED"} THEN "start_unloading"
     ELSE IF r.unloading = "IN_PROGRESS" THEN "complete_unloading"
     ELSE IF r.tare = None THEN "record_tare"
     ELSE "finalize"
<1> DEFINE t == <<
        <<r.gross = None /\ ~DocumentsMet(r.workflow, r), "upload_document">>,
        <<r.gross = None, "record_gross">>,
        <<IsRejected(r) \/ r.status = "REJECTED", "blocked">>,
        <<Remaining(r) # {}, "await_approval">>,
        <<r.status = "EXCEPTION" \/ r.tare = "over", "review_exception">>,
        <<r.place = None, "assign_unloading">>,
        <<r.unloading \notin {"IN_PROGRESS", "COMPLETED"}, "start_unloading">>,
        <<r.unloading = "IN_PROGRESS", "complete_unloading">>,
        <<r.tare = None, "record_tare">>,
        <<TRUE, "finalize">> >>
<1>1. DOMAIN t = 1..10 OBVIOUS
<1>2. t[10][1] OBVIOUS
<1>3. FirstThatHolds(t) = 
             IF t[1][1] THEN t[1][2] ELSE IF t[2][1] THEN t[2][2] ELSE IF t[3][1] THEN t[3][2]
             ELSE IF t[4][1] THEN t[4][2] ELSE IF t[5][1] THEN t[5][2] ELSE IF t[6][1] THEN t[6][2]
             ELSE IF t[7][1] THEN t[7][2] ELSE IF t[8][1] THEN t[8][2] ELSE IF t[9][1] THEN t[9][2]
             ELSE t[10][2]
   <2> HIDE DEF t
   <2> QED BY <1>1, <1>2, FirstOfTen
<1>4. NextStep(r) = FirstThatHolds(t) BY DEF NextStep
<1>5. (t[1][1] <=> (r.gross = None /\ ~DocumentsMet(r.workflow, r))) /\ t[1][2] = "upload_document" OBVIOUS
<1>6. (t[2][1] <=> (r.gross = None)) /\ t[2][2] = "record_gross" OBVIOUS
<1>7. (t[3][1] <=> (IsRejected(r) \/ r.status = "REJECTED")) /\ t[3][2] = "blocked" OBVIOUS
<1>8. (t[4][1] <=> (Remaining(r) # {})) /\ t[4][2] = "await_approval" OBVIOUS
<1>9. (t[5][1] <=> (r.status = "EXCEPTION" \/ r.tare = "over")) /\ t[5][2] = "review_exception" OBVIOUS
<1>10. (t[6][1] <=> (r.place = None)) /\ t[6][2] = "assign_unloading" OBVIOUS
<1>11. (t[7][1] <=> (r.unloading \notin {"IN_PROGRESS", "COMPLETED"})) /\ t[7][2] = "start_unloading" OBVIOUS
<1>12. (t[8][1] <=> (r.unloading = "IN_PROGRESS")) /\ t[8][2] = "complete_unloading" OBVIOUS
<1>13. (t[9][1] <=> (r.tare = None)) /\ t[9][2] = "record_tare" OBVIOUS
<1>14. t[10][2] = "finalize" OBVIOUS
<1> HIDE DEF t
<1> QED BY <1>3, <1>4, <1>5, <1>6, <1>7, <1>8, <1>9, <1>10, <1>11, <1>12, <1>13, <1>14

\* The table of resolveNextAction for a visit without a workflow.
WithoutWorkflow(r) ==
    <<<<r.status = "IDENTIFIED" /\ Blank(r), "upload_document">>,
      <<r.status = "DOCUMENT_PENDING", "upload_document">>,
      <<r.status = "DOCUMENT_VERIFIED" /\ r.gross = None, "assign_material">>,
      <<r.gross = None, "record_gross">>,
      <<TRUE, "continue">>>>

\* resolveNextAction of a visit without one.
LEMMA NextActionIs ==
    ASSUME NEW r, r.status # "COMPLETED", r.status # "ARRIVED", r.workflow = None
    PROVE  NextAction(r) =
             IF r.status = "IDENTIFIED" /\ Blank(r) THEN "upload_document"
             ELSE IF r.status = "DOCUMENT_PENDING" THEN "upload_document"
             ELSE IF r.status = "DOCUMENT_VERIFIED" /\ r.gross = None THEN "assign_material"
             ELSE IF r.gross = None THEN "record_gross"
             ELSE "continue"
<1> DEFINE t == WithoutWorkflow(r)
<1>1. DOMAIN t = 1..5 BY DEF WithoutWorkflow
<1>2. t[5][1] BY DEF WithoutWorkflow
<1>3. NextAction(r) = FirstThatHolds(t) BY DEF NextAction, WithoutWorkflow
<1>4. (t[1][1] <=> (r.status = "IDENTIFIED" /\ Blank(r))) /\ t[1][2] = "upload_document" BY DEF WithoutWorkflow
<1>5. (t[2][1] <=> (r.status = "DOCUMENT_PENDING")) /\ t[2][2] = "upload_document" BY DEF WithoutWorkflow
<1>6. (t[3][1] <=> (r.status = "DOCUMENT_VERIFIED" /\ r.gross = None)) /\ t[3][2] = "assign_material"
    BY DEF WithoutWorkflow
<1>7. (t[4][1] <=> (r.gross = None)) /\ t[4][2] = "record_gross" BY DEF WithoutWorkflow
<1>8. t[5][2] = "continue" BY DEF WithoutWorkflow
<1> HIDE DEF t
<1> QED BY <1>1, <1>2, <1>3, <1>4, <1>5, <1>6, <1>7, <1>8, FirstOfFive

\* What it takes for the next action of a visit with rows r to be open.
IsOpen(r) ==
    \/ NextAction(r) \in {"completed", "blocked", "review_exception", "continue"}
    \/ r.status = "MATERIAL_CLASSIFIED" /\ \E m \in Material : CanAssignMaterial(r, m)
    \/ \E o \in Does[NextAction(r)], a \in Args : Accepts(o, r, a)

\* A visit without a workflow can go on.
LEMMA OpenWithoutWorkflow ==
    ASSUME Material # {}, NEW r \in Rows, Fits(r), r.status \notin {"ABSENT", "COMPLETED", "ARRIVED"}, r.workflow = None
    PROVE  IsOpen(r)
<1>1. CASE NextAction(r) = "upload_document"
  <2>1. r.status \in {"IDENTIFIED", "DOCUMENT_PENDING"} BY <1>1, NextActionIs
  <2>2. Accepts("upload", r, None) BY <2>1 DEF Accepts
  <2>3. "upload" \in Does[NextAction(r)] /\ None \in Args BY <1>1 DEF Does, Args
  <2> QED BY <2>2, <2>3 DEF IsOpen
<1>2. CASE NextAction(r) = "assign_material"
  <2>1. r.status = "DOCUMENT_VERIFIED" /\ r.gross = None BY <1>2, NextActionIs
  <2>2. PICK m \in Material : TRUE OBVIOUS
  <2>3. DocumentsMet(m, r) BY <2>1 DEF Fits, DocumentsFit, DocumentsMet
  <2>4. Accepts("assignMaterial", r, m) BY <2>1, <2>2, <2>3 DEF Accepts, CanAssignMaterial
  <2>5. "assignMaterial" \in Does[NextAction(r)] /\ m \in Args BY <1>2, <2>2 DEF Does, Args
  <2> QED BY <2>4, <2>5 DEF IsOpen
<1>3. CASE NextAction(r) = "record_gross"
  <2>1. r.gross = None /\ r.status \notin {"DOCUMENT_PENDING", "DOCUMENT_VERIFIED"} BY <1>3, NextActionIs
  <2>2. r.status = "IDENTIFIED" BY <2>1 DEF Fits, StatusFits, Unweighed
  <2>3. CanRecordFirstWeighment(r) BY <2>1, <2>2 DEF CanRecordFirstWeighment, CanTransition, Successors
  <2>4. Accepts("weighGross", r, None) BY <2>2, <2>3 DEF Accepts, Mutable
  <2>5. "weighGross" \in Does[NextAction(r)] /\ None \in Args BY <1>3 DEF Does, Args
  <2> QED BY <2>4, <2>5 DEF IsOpen
<1>4. CASE NextAction(r) = "continue" BY <1>4 DEF IsOpen
<1> QED BY <1>1, <1>2, <1>3, <1>4, NextActionIs

\* A weighed visit whose approvals are there waits for its unloading, or is
\* beyond it.
LEMMA ApprovedStatus ==
    ASSUME NEW r \in Rows, Fits(r), r.gross # None, Remaining(r) = {}, r.status # "REJECTED", r.status # "EXCEPTION"
    PROVE  r.status \in {"APPROVED", "FIRST_WEIGHMENT", "UNLOADING", "UNLOADED", "SECOND_WEIGHMENT", "COMPLETED"}
<1>1. r.status \in Statuses \cup {"ABSENT"} BY DEF Rows
<1>2. r.status \notin Unweighed BY DEF Fits, StatusFits
<1>3. r.status # "PENDING_APPROVAL" BY DEF Fits, ApprovalsFit
<1> QED BY <1>1, <1>2, <1>3 DEF Statuses, Unweighed

\* A visit with a workflow can go on: the rules of the operations
\* (can...) allow what the table of the next action tells.
LEMMA OpenWithWorkflow ==
    ASSUME \A m \in Material : \E p \in Point : Suits(p, m),
           NEW r \in Rows, Fits(r), r.status \notin {"ABSENT", "COMPLETED", "ARRIVED"}, r.workflow # None
    PROVE  IsOpen(r)
<1>1. NextAction(r) = NextStep(r) BY DEF NextAction
<1>2. CASE r.gross = None
  <2>1. r.status = "MATERIAL_CLASSIFIED" BY <1>2 DEF Fits, StatusFits
  <2>2. PICK m \in Material : DocumentsMet(m, r) BY <2>1 DEF Fits, DocumentsFit
  <2>3. CanAssignMaterial(r, m) BY <1>2, <2>1, <2>2 DEF CanAssignMaterial
  <2> QED BY <2>1, <2>3 DEF IsOpen
<1>3. CASE r.gross # None /\ (IsRejected(r) \/ r.status = "REJECTED")
  BY <1>1, <1>3, NextStepIs DEF IsOpen
<1> DEFINE Weighed == r.gross # None /\ ~IsRejected(r) /\ r.status # "REJECTED"
<1>4. CASE Weighed /\ Remaining(r) # {}
  <2>1. NextAction(r) = "await_approval" BY <1>1, <1>4, NextStepIs
  <2>2. {"approve", "ensure"} = Does[NextAction(r)] BY <2>1 DEF Does
  <2> DEFINE s == First(Remaining(r))
  <2>3. s \in Stages
    <3>1. Remaining(r) \subseteq Stages /\ Stages \subseteq Nat BY RemainingAreStages
    <3>2. s \in Remaining(r) BY <1>4, <3>1, FirstIsIn
    <3> QED BY <3>1, <3>2
  <2>4. CASE MissesApproval(r)
    <3>1. Accepts("ensure", r, None) BY <2>4 DEF Accepts
    <3> QED BY <2>2, <3>1 DEF IsOpen, Args
  <2>5. CASE ~MissesApproval(r)
    <3>1. <<s, "PENDING">> \in r.approvals BY <1>4, <2>5 DEF MissesApproval
    <3>2. CanDecide(r, s) BY <1>4, <3>1 DEF CanDecide
    <3>3. Accepts("approve", r, s)
      <4> HIDE DEF s
      <4> QED BY <2>3, <3>2 DEF Accepts
    <3>4. s \in Args BY <2>3 DEF Args
    <3> QED BY <2>2, <3>3, <3>4 DEF IsOpen
  <2> QED BY <2>4, <2>5
<1> DEFINE Approved == Weighed /\ Remaining(r) = {}
<1>5. CASE Approved /\ (r.status = "EXCEPTION" \/ r.tare = "over")
  BY <1>1, <1>5, NextStepIs DEF IsOpen
<1> DEFINE Goes == Approved /\ r.status # "EXCEPTION" /\ r.tare # "over"
<1>6. ASSUME Goes
      PROVE  /\ PreUnloading(r) /\ Mutable(r)
             /\ r.status \in {"APPROVED", "FIRST_WEIGHMENT", "UNLOADING", "UNLOADED", "SECOND_WEIGHMENT"}
             /\ r.status \in {"APPROVED", "FIRST_WEIGHMENT"} <=> r.unloading \notin {"IN_PROGRESS", "COMPLETED"}
  <2>1. PreUnloading(r) BY <1>6 DEF PreUnloading, Fits, DocumentsFit
  <2>2. r.status \in {"APPROVED", "FIRST_WEIGHMENT", "UNLOADING", "UNLOADED", "SECOND_WEIGHMENT"}
      BY <1>6, ApprovedStatus
  <2>3. r.status \in {"APPROVED", "FIRST_WEIGHMENT"} <=> r.unloading \notin {"IN_PROGRESS", "COMPLETED"}
      BY <2>2 DEF Fits, StatusFits, Left
  <2> QED BY <2>1, <2>2, <2>3 DEF Mutable
<1>7. CASE Goes /\ r.place = None
  <2>1. NextAction(r) = "assign_unloading" BY <1>1, <1>7, NextStepIs
  <2>2. r.unloading \notin {"IN_PROGRESS", "COMPLETED"}
    <3>1. r.unloading = None BY <1>7 DEF Fits, StatusFits
    <3> QED BY <3>1, WorkflowAssumption
  <2>3. CanAssignUnloading(r) BY <1>6, <1>7, <2>2 DEF CanAssignUnloading
  <2>4. r.material \in Material BY DEF Fits, StatusFits, Rows
  <2>5. PICK p \in Point : Suits(p, r.material) BY <2>4
  <2>6. Accepts("assignPoint", r, p) BY <1>6, <1>7, <2>3, <2>5 DEF Accepts
  <2>7. "assignPoint" \in Does[NextAction(r)] /\ p \in Args BY <2>1, <2>5 DEF Does, Args
  <2> QED BY <2>6, <2>7 DEF IsOpen
<1>8. CASE Goes /\ r.place # None /\ r.unloading \notin {"IN_PROGRESS", "COMPLETED"}
  <2>1. NextAction(r) = "start_unloading" BY <1>1, <1>8, NextStepIs
  <2>2. CanStartUnloading(r) BY <1>6, <1>8 DEF CanStartUnloading
  <2>3. Accepts("start", r, None) BY <1>6, <1>8, <2>2 DEF Accepts
  <2>4. "start" \in Does[NextAction(r)] /\ None \in Args BY <2>1 DEF Does, Args
  <2> QED BY <2>3, <2>4 DEF IsOpen
<1>9. CASE Goes /\ r.place # None /\ r.unloading = "IN_PROGRESS"
  <2>1. NextAction(r) = "complete_unloading" BY <1>1, <1>9, NextStepIs
  <2>2. CanCompleteUnloading(r) BY <1>9 DEF CanCompleteUnloading, Fits, StatusFits
  <2>3. Accepts("complete", r, None) BY <1>6, <1>9, <2>2 DEF Accepts
  <2>4. "complete" \in Does[NextAction(r)] /\ None \in Args BY <2>1 DEF Does, Args
  <2> QED BY <2>3, <2>4 DEF IsOpen
<1>10. CASE Goes /\ r.place # None /\ r.unloading = "COMPLETED" /\ r.tare = None
  <2>1. NextAction(r) = "record_tare" BY <1>1, <1>10, NextStepIs
  <2>2. r.status = "UNLOADED" BY <1>10 DEF Fits, StatusFits
  <2>3. Accepts("weighTare", r, None) BY <1>6, <1>10, <2>2 DEF Accepts, CanRecordSecondWeighment
  <2>4. "weighTare" \in Does[NextAction(r)] /\ None \in Args BY <2>1 DEF Does, Args
  <2> QED BY <2>3, <2>4 DEF IsOpen
<1>11. CASE Goes /\ r.place # None /\ r.unloading = "COMPLETED" /\ r.tare # None
  <2>1. NextAction(r) = "finalize" BY <1>1, <1>11, NextStepIs
  <2>2. r.tare = "ok" /\ r.status = "SECOND_WEIGHMENT"
    <3>1. r.status \in Left \ {"UNLOADED"} BY <1>11 DEF Fits, StatusFits
    <3> QED BY <1>11, <3>1 DEF Rows, Left
  <2>3. CanFinalize(r) BY <1>6, <1>11, <2>2 DEF CanFinalize, PreUnloading
  <2>4. Accepts("finalize", r, None) BY <1>6, <1>11, <2>3 DEF Accepts
  <2>5. "finalize" \in Does[NextAction(r)] /\ None \in Args BY <2>1 DEF Does, Args
  <2> QED BY <2>4, <2>5 DEF IsOpen
<1> QED BY <1>2, <1>3, <1>4, <1>5, <1>7, <1>8, <1>9, <1>10, <1>11

\* As long as requests about a visit do not overlap, resolveNextAction never
\* tells a visit to do what no operation accepts, at a site that has a
\* material and, for each material, a point that accepts it.
THEOREM NextActionCorrect ==
    ASSUME Material # {}, \A m \in Material : \E p \in Point : Suits(p, m)
    PROVE  Spec /\ []OnePerVisit => []NextActionIsOpen
<1>1. IInv /\ RowsFit => NextActionIsOpen
  <2> SUFFICES ASSUME IInv, RowsFit, NEW v \in Visit, visit[v].status # "ABSENT" PROVE IsOpen(visit[v])
      BY DEF NextActionIsOpen, IsOpen
  <2> DEFINE r == visit[v]
  <2>1. r \in Rows /\ Fits(r) BY DEF IInv, TypeOK, RowsFit
  <2>2. CASE r.status = "COMPLETED"
    <3>1. NextAction(r) = "completed" BY <2>2 DEF NextAction
    <3> QED BY <3>1 DEF IsOpen
  <2>3. CASE r.status = "ARRIVED"
    <3>1. NextAction(r) = "identify" BY <2>3 DEF NextAction
    <3>2. Accepts("identify", r, None) BY <2>3 DEF Accepts
    <3> QED BY <3>1, <3>2 DEF IsOpen, Does, Args
  <2> HIDE DEF r
  <2>4. CASE r.status \notin {"COMPLETED", "ARRIVED"}
    <3>1. r.status # "ABSENT" BY DEF r
    <3> QED BY <2>1, <2>4, <3>1, OpenWithoutWorkflow, OpenWithWorkflow DEF r
  <2> QED BY <2>2, <2>3, <2>4 DEF r
<1> QED BY <1>1, SpecIInv, SpecFits, PTL

=============================================================================
