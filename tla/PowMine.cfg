SPECIFICATION Spec
CONSTANTS
    NumWorkers = 3
    MaxNonce = 3
INVARIANTS
    ResultIsJustified
    SendsAreSafe
PROPERTIES
    MineEnds
CHECK_DEADLOCK FALSE
