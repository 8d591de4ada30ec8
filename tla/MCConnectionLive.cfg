SPECIFICATION FairSpec
CONSTANTS
    HALF = 8
    MAX_PAYLOAD_SIZE = 1
    WINDOW_MOD = 16
    RtTimeout = 1
    MaxRetxAttempts = 2
    LingerTimeouts = 10
    SendCapacity = 4
    Settings <- LiveSettings
    Isn <- NearWrap
    MaxFaults = 1
    FinAfterData = TRUE
INVARIANT WithinCapacity
PROPERTY BothCloseCleanly
CHECK_DEADLOCK FALSE
