SPECIFICATION Spec
CONSTANTS
    v1 = v1  v2 = v2  c1 = c1  c2 = c2  r1 = r1  r2 = r2
    None = None
    Visit <- OneVisit
    Event <- WeighedVisit
    KindOf <- MCKindOf
    VisitOf <- MCVisitOf
    Rank <- MCRank
    Central = {c1, c2}
    Request = {r1, r2}
    BatchSize = 2
    MaxRetries = 2
    MaxFaults = 2
SYMMETRY OverlapSymmetry
INVARIANTS
    SyncedIsApplied
    RetriesAreCountedOnce
PROPERTIES
    DeadLetterIsFinal
    
CHECK_DEADLOCK FALSE
