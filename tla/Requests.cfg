SPECIFICATION Spec
CONSTANTS
    SessionPoll <- MCSessionPoll
    SdpPoll <- MCSdpPoll
    MaxDuration = 2
    Token = "bearer"
    Playlists <- MCPlaylists
    Hints <- MCHints
    Graces <- MCGraces
    Predictions <- MCPredictions
    MaxSessions = 2
CHECK_DEADLOCK FALSE
INVARIANTS WholeClipOrNone CredentialsStayHome AnswersTheAsked
PROPERTY WaitsEnd
