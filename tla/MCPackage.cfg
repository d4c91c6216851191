CONSTANTS
    Block = 4
    LenBytes = 2
    Base = 256
    MaxRead = 6
    MaxFile = 9
    None = None
    Host <- X64
    TpxTargets <- Tpx
    CargoTargets <- Triples
    MaxRev = 2
    MaxBuilds = 2
SPECIFICATION PackageSpec
INVARIANTS
    TypeOK
    DigestsTheFile
    PaddingIsShort
    PackagesWhatItBuilt
    DeliveredStays
