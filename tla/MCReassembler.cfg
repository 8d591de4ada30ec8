SPECIFICATION Spec
CONSTANTS
    Capacity = 5
    Total = 11
    MaxChunk = 6
    WindowObeyed = TRUE
    BareEofInOrder = TRUE
INVARIANTS
    TypeOK
    DeliveredExactly
    StaysWithinCapacity
    StoredInPlace
    EndsOnlyWhenComplete
PROPERTIES
    NeverReneges
CHECK_DEADLOCK FALSE
