SPECIFICATION Spec
CONSTANTS
    Hosts = {h1, h2, h3}
    ETHERNET_BROADCAST = broadcast
    MAX_RETX_WAITING_TIME = 2
    MAX_CACHE_TIME = 3
    TickLengths = {1, 2}
    MaxDatagrams = 2
    MaxLosses = 1
    MaxReplacements = 1
INVARIANTS
    TypeOK
    NothingWaitsOnceKnown
    DeliveredToNextHopInOrder
    StaleMappingsExpire
PROPERTIES
    WaitsUntilSent
SYMMETRY HostSymmetry
