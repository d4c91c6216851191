CONSTANTS
    Engines = {e1, e2}
    None = None
    MaxFrames = 1
    PairStates = {TRUE}
    Ids = {1}
    DocCodecs = {"h264", "hevc"}
    MaxSessions = 1
    WaitForClosed = TRUE
    HostStalls = FALSE
    CloseFirst = TRUE
SPECIFICATION Spec
SYMMETRY EngineSymmetry
INVARIANTS
    TypeOK
    OneStream
    PumpUntouched
    TerminationIsOwn
    InputReachesOwn
    CleanCloseWasAsked
    FramesInOrder
    ReleasedOrExcused
