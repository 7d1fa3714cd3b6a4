----------------------- MODULE MCTransactionLifecycle -----------------------
(* Instances of TransactionLifecycle for TLC: three workflows, one without  *)
(* documents and approvals, one whose approval a light load does not need,  *)
(* one with documents and two stages.                                       *)
EXTENDS TransactionLifecycle, TLC

CONSTANTS v1, v2, h1, h2, p1, p2, d1, plain, store, lab

MCWorkflow ==
    [m \in {plain, store, lab} |->
        CASE m = plain -> [documents |-> FALSE, stages |-> {},     autoContinue |-> FALSE]
          [] m = store -> [documents |-> FALSE, stages |-> {1},    autoContinue |-> TRUE]
          [] m = lab   -> [documents |-> TRUE,  stages |-> {1, 2}, autoContinue |-> FALSE]]

TheWorkflows == [m \in Material |-> MCWorkflow[m]]

AnyMaterial  == [p \in Point |-> {}]
PlainAtFirst == [p \in Point |-> IF p = p1 THEN {plain} ELSE {}]

\* Documents and the workflow that needs them come in the visit of a site with
\* no other.
InOneVisit ==
    \/ \E v \in Visit : \A w \in Visit \ {v} : visit[w].status = "ABSENT"
    \/ /\ \A v \in Visit : visit[v].material # lab /\ \A d \in Document : visit[v].documents[d] = "ABSENT"
       /\ \A h \in Handler : arg[h] \notin {lab, d1} /\ op[h] # "upload"

DocumentsInOneVisit == Init /\ [][Next /\ InOneVisit']_vars

HandlerSymmetry == Permutations(Handler)
VisitSymmetry   == Permutations(Handler) \cup Permutations(Visit)
=============================================================================
