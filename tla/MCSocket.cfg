SPECIFICATION FairSpec
CONSTANTS
    PipeCapacity = 1
    SendCapacity = 1
    RecvCapacity = 2
    CopyBuffer = 2
    Resets = TRUE
    Programs <- Every
INVARIANTS
    TypeOK
    NothingLostBetween
    
    
    
PROPERTIES
    
    Terminates
CHECK_DEADLOCK FALSE
