SPECIFICATION Spec
CONSTANTS
    Window = 1
    MaxReplacements = 1
    MaxAttempts = 2
    MaxTime = 4
    MaxTxs = 5
    MaxStarts = 3
    MaxUndetermined = 1
INVARIANTS
    TypeOK
    RecordedHashesAreBound
    MutationCheckpointIsHonest
    ReplacedScenarioIsClosed
    CompleteIsEarned
CHECK_DEADLOCK FALSE
