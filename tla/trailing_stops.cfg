SPECIFICATION Spec
CONSTANTS
    Ticks = {9800, 9900, 10100, 10200}
    Atrs = {100, 200}
    EntryPrice = 10000
    InitialRisk = 300
    TrailBp = 200
    AtrMultiplier = 2
    TriggerBp = 100
    OffsetBp = 10
    StepBp = 100
    StepTrailBp = 50
    MinMoveBp = 20
    Setups <- MCSetups
    MaxRequests = 2
INVARIANTS
    TypeOK
    ClaimsAreTrue
    RestartFindsTheConfirmed
PROPERTIES
    ExchangeNeverLoosens
    StopsFollow
