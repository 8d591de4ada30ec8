SPECIFICATION Spec
CONSTANTS
    PipeCapacity = 1
    SendCapacity = 1
    RecvCapacity = 2
    CopyBuffer = 2
    Resets = FALSE
    Programs <- Quitting
INVARIANTS
    DestructionResets
CHECK_DEADLOCK FALSE
