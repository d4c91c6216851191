CONSTANTS
    Engines = {e1, e2}
    None = None
    MaxFrames = 0
    PairStates = {TRUE}
    Ids = {i1, i2}
    DocCodecs = {"h264"}
    MaxSessions = 2
    WaitForClosed = FALSE
    HostStalls = FALSE
    CloseFirst = FALSE
SPECIFICATION Spec
SYMMETRY NumberSymmetry
INVARIANT ExitStopsEveryEngine
