SPECIFICATION Spec
CONSTANTS
    NumWorkers = 2
    MaxNonce = 1
INVARIANTS
    CanceledOnlyIfCanceled
CHECK_DEADLOCK FALSE
