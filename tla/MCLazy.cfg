CONSTANTS
    Engines = {e1, e2}
    None = None
    MaxFrames = 0
    PairStates = {TRUE}
    Ids = {1}
    DocCodecs = {"h264"}
    MaxSessions = 1
    WaitForClosed = TRUE
    HostStalls = FALSE
    CloseFirst = FALSE
SPECIFICATION Spec
INVARIANT CleanCloseWasAsked
