CONSTANTS
    Codes = {"KeyA", "ShiftLeft", "ShiftRight", "NumLock"}
    ButtonMasks = {0, 1, 13}
    Xs = {1, 5}
    WheelDeltas <- MCWheel
    Word = 8
    None = None
    MaxInFlight = 2
    MaxMessages = 4
SPECIFICATION Spec
INVARIANTS
    TypeOK
    NothingStuck
    ButtonsFollow
    PointerCatchesUp
    ScrollFollows
PROPERTY ClicksLand
