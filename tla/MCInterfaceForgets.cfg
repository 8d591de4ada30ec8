SPECIFICATION Spec
CONSTANTS
    Hosts = {h1, h2}
    ETHERNET_BROADCAST = broadcast
    MAX_RETX_WAITING_TIME = 2
    MAX_CACHE_TIME = 4
    TickLengths = {1, 3}
    MaxDatagrams = 3
    MaxLosses = 1
    MaxReplacements = 1
INVARIANT
    NothingForgotten
