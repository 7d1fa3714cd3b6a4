SPECIFICATION Spec
CONSTANTS
    v1 = v1  v2 = v2  h1 = h1  h2 = h2  p1 = p1  p2 = p2  d1 = d1
    plain = plain  store = store  lab = lab
    None = None
    Visit = {v1, v2}
    Document = {}
    Material = {plain}
    Point = {p1}
    Handler = {h1, h2}
    Workflow <- TheWorkflows
    AllowedAt <- AnyMaterial
SYMMETRY VisitSymmetry
INVARIANTS
    OneVisitPerPoint
CHECK_DEADLOCK FALSE
