CONSTANTS
    Codes = {"KeyA"}
    ButtonMasks = {0, 1}
    Xs = {1}
    WheelDeltas = {}
    Word = 8
    None = None
    MaxInFlight = 2
    MaxMessages = 4
SPECIFICATION Spec
INVARIANT PointerIsSafe
