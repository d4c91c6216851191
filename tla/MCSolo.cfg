CONSTANTS
    Engines = {e1}
    None = None
    MaxFrames = 3
    PairStates = {TRUE, FALSE}
    Ids = {1}
    DocCodecs = {"hevc"}
    MaxSessions = 1
    WaitForClosed = TRUE
    HostStalls = TRUE
    CloseFirst = TRUE
SPECIFICATION FairSpec
INVARIANT FramesInOrder
PROPERTIES
    FollowsProtocol
    ClosedSessionUnwinds
    MainReturns
    LostStreamEnds
    NoLaunchAfterEarlyClose
