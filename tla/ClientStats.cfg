SPECIFICATION Spec
CONSTANTS
    Frames = {f1}
    Messages = {m1}
    MaxConnections = 2
CHECK_DEADLOCK FALSE
INVARIANTS
    Accounted
    OwnWindow
PROPERTIES
    ReportersEnd
