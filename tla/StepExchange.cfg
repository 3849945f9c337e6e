SPECIFICATION Spec
CONSTANTS
    v = v
    a = a
    Null = Null
    Tracks = {v, a}
    TrackBytes = 1
    Budgets = {6, 9}
    MaxPushes = 6
    Declared <- MCDeclared
    Inputs <- MCInputs
    Asks <- MCAsks
    Replies <- MCReplies
    Envelope = 2
    Default = 6
    Exact = 4
    Word = 64
    StepWork = 2
    MaxWork = 5
INVARIANTS
    TakesNewestOrRefuses
    OutcomeTold
    FramesRideOnce
PROPERTIES
    StepsEnd
