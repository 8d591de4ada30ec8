SPECIFICATION Spec
CONSTANTS
    HALF = 4
    MaxPosition = 26
INVARIANTS
    
    UnwrapIsClosest
