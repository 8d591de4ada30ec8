SPECIFICATION Spec
CONSTANTS
    HALF = 8
    MAX_PAYLOAD_SIZE = 1
    WINDOW_MOD = 16
    RtTimeout = 1
    MaxRetxAttempts = 1
    LingerTimeouts = 1
    SendCapacity = 2
    Settings <- SafetySettings
    Isn <- NearWrap
    MaxFaults = 1
    FinAfterData = TRUE
INVARIANTS
    TypeOK
    
    ForgottenIsReceived
    SomeoneLingers
PROPERTIES
    FollowsStateDiagram
    IsTransport
CHECK_DEADLOCK FALSE
