SPECIFICATION Spec
CONSTANTS
    v1 = v1  v2 = v2  c1 = c1  c2 = c2  r1 = r1  r2 = r2
    None = None
    Visit <- OneVisit
    Event <- WholeVisit
    KindOf <- MCKindOf
    VisitOf <- MCVisitOf
    Rank <- MCRank
    Central = {c1, c2}
    Request = {r1}
    BatchSize = 2
    MaxRetries = 2
    MaxFaults = 1
SYMMETRY CentralSymmetry
INVARIANTS
    NothingBeforeItsVisit
    CentralCompletionIsTrue
    ConflictIsNotOverwritten
CHECK_DEADLOCK FALSE
