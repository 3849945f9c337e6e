SPECIFICATION Spec
CONSTANTS
    Callers = {c1}
    Pump = pump
    NoTask = none
    Adopted = adopted
    MaxCalls = 3
    MaxDrops = 1
    MaxQueue = 2
    Preset = TRUE
    Stepped = TRUE
    Environments = {{}, {"prompt"}, {"prompt", "undisturbed"}}
CHECK_DEADLOCK FALSE
INVARIANTS
    DisconnectIsFinal
    BlamesOwnPeer
    ReadyMeansUpIfQuiet
PROPERTIES
    ForgetsOnlyEndedSessions
    CallsReturn
    DropIsNoticed
    FollowsDiagram
