SPECIFICATION Spec
CONSTANTS
    Callers = {c1}
    Pump = pump
    NoTask = none
    Adopted = adopted
    MaxCalls = 1
    MaxDrops = 1
    MaxQueue = 2
    Preset = FALSE
    Stepped = FALSE
    Environments = {{"prompt"}}
CHECK_DEADLOCK FALSE
INVARIANT ReadyMeansUp
