CONSTANTS
    Engines = {e1}
    None = None
    MaxFrames = 0
    PairStates = {TRUE}
    Ids = {1}
    DocCodecs = {"h264"}
    MaxSessions = 1
    WaitForClosed = TRUE
    HostStalls = FALSE
    CloseFirst = TRUE
SPECIFICATION Spec
INVARIANT CleanExitReleasesHost
