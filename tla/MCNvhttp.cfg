CONSTANTS
    Sessions = {s1, s2}
    Identities = {i1, i2}
    Pins = {p1, p2}
    None = None
    Noise = Noise
    Sunshine = Sunshine
    Offers <- MCOffers
    Numerals <- MCNumerals
SPECIFICATION HttpSpec
SYMMETRY PairingSymmetry
INVARIANTS
    TypeOK
    HttpTypeOK
    PairedIsTrusted
    ConfirmsOnlyWithPin
    OneIdentity
    LaunchesDesktop
    StreamsItsOwn
    HeldIsExplained
PROPERTY NeverAskedAgain
