SPECIFICATION Spec
CONSTANTS
    MaxAttempts = 2
    MaxCandidates = 1
CHECK_DEADLOCK FALSE
INVARIANTS
    NothingStranded
    ToldOnceToTheRight
PROPERTIES
    EverythingGoesOut
