SPECIFICATION Spec
CONSTANTS
    Callers = {c1, c2}
    Pump = pump
    NoTask = none
    Adopted = adopted
    MaxCalls = 2
    MaxDrops = 1
    MaxQueue = 2
    Preset = FALSE
    Stepped = FALSE
    Environments = {{}}
CHECK_DEADLOCK FALSE
SYMMETRY CallerSymmetry
INVARIANTS
    SettledWhenIdle
    NeverTerminatesAdopted
    NoLostReadiness
