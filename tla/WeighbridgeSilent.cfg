SPECIFICATION ConnectionSpec
CONSTANTS
    Request = {q1}
    Device = {d1}
    NoDevice = NoDevice
    MaxReconnects = 1
    HealthTicks = 1
    MaxLineChanges = 2
PROPERTIES
    SilenceIsNoticed
CHECK_DEADLOCK FALSE
