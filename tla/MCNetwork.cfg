CONSTANTS
    MAX_RETX_WAITING_TIME = 1
    MAX_CACHE_TIME = 2
    DEFAULT_TTL = 5
    ETHERNET_BROADCAST <- MCBroadcast
    Misrouted <- MCMisrouted
    Nowhere <- MCNowhere
    Damages <- MCDamages
    MaxFaults = 2
    MaxWrites = 2
SPECIFICATION Spec
INVARIANT SegmentsArriveIntact
INVARIANT ForwardedAlongLongestPrefix
PROPERTY LoopsEnd
PROPERTY ReachesPeer
