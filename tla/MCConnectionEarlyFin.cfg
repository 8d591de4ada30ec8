SPECIFICATION Spec
CONSTANTS
    HALF = 8
    MAX_PAYLOAD_SIZE = 1
    WINDOW_MOD = 16
    RtTimeout = 1
    MaxRetxAttempts = 1
    LingerTimeouts = 2
    SendCapacity = 2
    Settings <- EarlyFinSettings
    Isn <- NearWrap
    MaxFaults = 1
    FinAfterData = FALSE
INVARIANT ForgottenIsReceived
CHECK_DEADLOCK FALSE
