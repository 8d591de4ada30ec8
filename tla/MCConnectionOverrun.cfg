SPECIFICATION Spec
CONSTANTS
    HALF = 8
    MAX_PAYLOAD_SIZE = 1
    WINDOW_MOD = 16
    RtTimeout = 1
    MaxRetxAttempts = 1
    LingerTimeouts = 1
    SendCapacity = 4
    Settings <- OverrunSettings
    Isn <- NearWrap
    MaxFaults = 1
    FinAfterData = TRUE
INVARIANT WithinCapacity
CHECK_DEADLOCK FALSE
