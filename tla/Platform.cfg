SPECIFICATION PlatformSpec
CONSTANTS
    o1 = o1  o2 = o2  scan1 = scan1  t1 = t1  t2 = t2  t3 = t3  t4 = t4  m1 = m1  m2 = m2
    c1 = c1  c2 = c2  c3 = c3  i1 = i1  u1 = u1  u2 = u2
    d1 = d1  p1 = p1  p2 = p2  e1 = e1  e2 = e2  q1 = q1  q2 = q2
    Write = {1, 2, 3}
    MaxStoreFaults = 2
    Missing = Missing
    Call = {o1, o2}
    MaxVisits = 2
    Weight = {1, 2}
    Document = {scan1}
    Policy <- Policies
    MaxEvents = 4
    MaxRestarts = 1
    Ticket = {t1, t2, t3, t4}
    ServiceRecord = {m1, m2}
    Clerk = {c1, c2, c3}
    WindowManager = {c1}
    NoTicket = NoTicket
    Attempts = 3
    MaxWindows = 2
    MaxAborts = 1
    NullWeight = NullWeight
    Reading <- Readings
    AnomalyType <- Rules
    OpenStatus = {"none", "FIRST_WEIGHMENT"}
    Ingestion = {i1}
    Reviewer = {u1, u2}
    EmptyLimit = 1
    RateLimit = 2
    JumpLimit = 4
    Consecutive = 2
    MinReadings = 2
    MaxUnstable = 2
    MaxAnomalies = 2
    MaxAnomalyFaults = 1
    Detection = {d1}
    Plate = {p1, p2}
    NoPlate = NoPlate
    Operator = {e1, e2}
    MaxArrivals = 2
    MaxRuns = 3
    Kept = {}
    MaxBackupFaults = 1
    LastConfigStep = 1
    OnboardingRequest = {q1, q2}
    MaxConfigChanges = 1
INVARIANTS
    PlatformTypeOK
    NumbersAreNotReused
    RecordedIsQueued
    PrerequisiteIsQueued
    NoWindowLeftOpen
    OneActiveEvent
    
    
    CompletedIsValidated
PROPERTIES
    
    NewestBackupSurvives
CHECK_DEADLOCK FALSE
