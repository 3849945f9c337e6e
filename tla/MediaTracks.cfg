SPECIFICATION Spec
CONSTANTS
    Declared <- MCDeclared
    BitrateNames <- MCBitrateNames
    PauseNames <- MCPauseNames
    PublishNames <- MCPublishNames
    Asked <- MCAsked
    Refused <- MCRefused
    MaxConnects = 2
    Applications <- MCApplications
INVARIANTS
    BoundsSurvive
    FramedAlike
    RuntimeAgrees
PROPERTY KeptAlive
CHECK_DEADLOCK FALSE
