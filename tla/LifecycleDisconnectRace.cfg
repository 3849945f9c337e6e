SPECIFICATION Spec
CONSTANTS
    Callers = {c1, c2}
    Pump = pump
    NoTask = none
    Adopted = adopted
    MaxCalls = 2
    MaxDrops = 0
    MaxQueue = 2
    Preset = FALSE
    Stepped = FALSE
    Environments = {{"prompt", "undisturbed"}}
CHECK_DEADLOCK FALSE
INVARIANT DisconnectEndsSession
