SPECIFICATION Spec
CONSTANTS
    Symbols = {BTC}
    Sizes = {1, 2}
    Passes = {loop, triggered}
    Loop = loop
    Required = 2
    SizeTolerancePct = 1
    AutoSyncLocal = TRUE
    ListsClosed = TRUE
    MaxMoves = 4
INVARIANTS
    TypeOK
    SuccessMeansAgreement
PROPERTIES
    ActsOnRepeatedDetections
    CalmSettles
