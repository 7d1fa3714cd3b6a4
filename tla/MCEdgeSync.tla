----------------------------- MODULE MCEdgeSync -----------------------------
(* Instances of EdgeSync for TLC: an event is a pair of a visit and a kind, *)
(* and events are ranked by the order in which an operator captures them.  *)
EXTENDS EdgeSync, TLC

CONSTANTS v1, v2, c1, c2, r1, r2

KindRank == [k \in Kinds |->
    CASE k = "CREATED" -> 0 [] k = "GROSS" -> 1 [] k = "TARE" -> 2 [] k = "STATE" -> 3]

OneVisit      == {v1}
WholeVisit    == {v1} \X Kinds
WeighedVisit  == {v1} \X {"CREATED", "GROSS"}
ClosedVisit   == {v1} \X {"CREATED", "GROSS", "STATE"}

TwoVisits     == {v1, v2}
ConflictAndArrival == ClosedVisit \cup {<<v2, "CREATED">>}

MCKindOf  == [e \in Event |-> e[2]]
MCVisitOf == [e \in Event |-> e[1]]
MCRank    == [e \in Event |-> KindRank[e[2]] + (IF e[1] = v1 THEN 0 ELSE 4)]

CentralSymmetry == Permutations(Central)
OverlapSymmetry == Permutations(Central) \cup Permutations(Request)
=============================================================================
