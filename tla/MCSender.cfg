SPECIFICATION Spec
CONSTANTS
    HALF = 8
    MAX_PAYLOAD_SIZE = 2
    WINDOW_MOD = 16
    SendCapacity = 3
    Total = 5
    MaxWrite = 3
    PeerCapacity = 3
    Isn = 13
    RtTimeout = 2
    TickLengths = {1, 3}
    MaxRetxAttempts = 1
INVARIANTS
    TypeOK
    OutstandingIsContiguous
    SequenceSpaceAccounted
    WindowRespected
    ForgetsOnlyAcknowledged
    TimerGuardsOutstanding
    NeverStalls
PROPERTIES
    SendsForward
CHECK_DEADLOCK FALSE
