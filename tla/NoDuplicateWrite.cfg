SPECIFICATION Spec
CONSTANTS
    Window = 1
    MaxReplacements = 1
    MaxAttempts = 2
    MaxTime = 4
    MaxTxs = 6
    MaxStarts = 2
    MaxUndetermined = 0
INVARIANT NoDuplicateWrite
CHECK_DEADLOCK FALSE
