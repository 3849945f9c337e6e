SPECIFICATION HostSpec
CONSTANTS
    a = a
    b = b
    Clients = {a, b}
    Kinds <- MCKinds
    Apps = {app}
    NoClient = none
    Connecting = {b}
    AudioDepth = 2
    MaxPending = 1
CHECK_DEADLOCK FALSE
INVARIANTS
    CompleteMeansQuiet
    NoLostWakeup
    NoThreadOutlivesDestroy
PROPERTY
    DestroyEnds
