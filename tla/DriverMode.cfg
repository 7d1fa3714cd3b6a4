SPECIFICATION DriversSpec
CONSTANTS
    v1 = v1  v2 = v2  h1 = h1  h2 = h2  p1 = p1  p2 = p2  d1 = d1
    plain = plain  store = store  lab = lab
    None = None
    Visit = {v1}
    Document = {d1}
    Material = {plain, store}
    Point = {p1}
    Handler = {h1, h2}
    Workflow <- TheWorkflows
    AllowedAt <- AnyMaterial
    MaxPolls = 1
    MaxLosses = 1
INVARIANTS
    CompletedIsWeighed
PROPERTIES
    WeighmentsAreKept
    DecisionsStand
    DriverSeesDecision
CHECK_DEADLOCK FALSE
