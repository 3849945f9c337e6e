SPECIFICATION Spec
CONSTANTS
    Commands = {r1}
    Steps = {r2}
    Controls = {}
    MaxTeardowns = 2
CHECK_DEADLOCK FALSE
INVARIANTS
    NoLeftovers
    ReportedOnce
PROPERTIES
    CallsReturn
