SPECIFICATION LiveSpec
CONSTANTS
    k1 = k1  k2 = k2  big = big  page = page
    w1 = w1  w2 = w2  dl = dl  s1 = s1  s2 = s2  u1 = u1  i1 = i1  i2 = i2
    q1 = q1  q2 = q2  d1 = d1  d2 = d2
    FailThreshold = 3
    RecoverThreshold = 2
    TicksPerBeat = 2
    MaxRetries = 2
    MaxCaptures = 2
    MaxOutages = 2
    ScanCall = {k1, k2}
    ContentOf <- ScannedContents
    Refused = {big}
    Post = {1, 2}
    UploadLimit = 2
    MaxFileFaults = 1
    Delivery = {dl}
    Worker = {w1, w2}
    MaxAttempts = 2
    MaxWebhookFaults = 2
    Scan = {s1, s2}
    Source = {"gateway", "system"}
    AlertUser = {u1}
    LastDay = 2
    MaxChanges = 2
    NullWeight = NullWeight
    Reading <- Readings
    AnomalyType = {"NEGATIVE_OR_INVALID_WEIGHT"}
    OpenStatus = {"none"}
    Ingestion = {i1, i2}
    Reviewer = {}
    EmptyLimit = 1
    RateLimit = 2
    JumpLimit = 4
    Consecutive = 2
    MinReadings = 2
    MaxUnstable = 2
    MaxAnomalies = 2
    MaxAnomalyFaults = 0
    Request = {q1, q2}
    Device = {d1}
    NoDevice = NoDevice
    MaxReconnects = 2
    HealthTicks = 1
    MaxLineChanges = 2
INVARIANTS
    LiveTypeOK
    NotGivenUpEarly
PROPERTIES
    OfflineIsEarned
    OutageIsNoticed
    EveryDeliveryIsDecided
    ResolvedIsFinal
    RecoveryClosesAlerts
    RecoveryIsRecorded
    RetryReachesDevice
    
CHECK_DEADLOCK FALSE
