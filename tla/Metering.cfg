SPECIFICATION Spec
CONSTANTS
    Inbound <- MCInbound
    Outbound <- MCOutbound
    Tracks <- MCTracks
    Callers = {c1}
    PageBatches <- MCPageBatches
    MaxName = 2
    MinWindow = 1
    MaxConnections = 2
    MaxEvents = 3
    MaxClock = 2
CHECK_DEADLOCK FALSE
INVARIANTS
    WireAllows
    RatesCoverOnce
    BatchesAddUp
