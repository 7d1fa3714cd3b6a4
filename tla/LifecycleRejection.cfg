SPECIFICATION Spec
CONSTANTS
    v1 = v1  v2 = v2  h1 = h1  h2 = h2  p1 = p1  p2 = p2  d1 = d1
    plain = plain  store = store  lab = lab
    None = None
    Visit = {v1}
    Document = {}
    Material = {store}
    Point = {p1}
    Handler = {h1}
    Workflow <- TheWorkflows
    AllowedAt <- AnyMaterial
INVARIANTS
    RejectionEndsVisit
CHECK_DEADLOCK FALSE
