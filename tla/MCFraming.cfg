CONSTANTS
    Threads = {t1, t2}
    None = None
    Base = 3
    MAX_FRAME_BYTES = 3
    PayloadLens = {0, 2, 3}
    Fills = {0, 2}
    MaxCalls = 2
SPECIFICATION FairSpec
INVARIANTS
    TypeOK
    NeverDesynchronised
PROPERTIES
    FollowsChannel
    CallsReturn
    MessagesArrive
