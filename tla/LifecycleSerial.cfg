SPECIFICATION DocumentsInOneVisit
CONSTANTS
    v1 = v1  v2 = v2  h1 = h1  h2 = h2  p1 = p1  p2 = p2  d1 = d1
    plain = plain  store = store  lab = lab
    None = None
    Visit = {v1, v2}
    Document = {d1}
    Material = {plain, store, lab}
    Point = {p1, p2}
    Handler = {h1}
    Workflow <- TheWorkflows
    AllowedAt <- PlainAtFirst
SYMMETRY VisitSymmetry
INVARIANTS
    GatesHold
    NextActionIsOpen
    OneVisitPerPoint
PROPERTIES
    MaterialIsFixedWhenWeighed
    PointIsReleased
CHECK_DEADLOCK FALSE
