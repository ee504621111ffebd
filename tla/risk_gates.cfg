SPECIFICATION Spec
CONSTANTS
    BTC = BTC
    ETH = ETH
    Symbols = {BTC, ETH}
    Correlations <- MCCorrelations
    Stops = {10, 50}
    InitialCapital = 1000
    PnLs <- MCPnLs
    Transfers <- MCTransfers
    PositionPct = 5
    AggregatePct = 10
    CorrelatedPct = 7
    HeatPct = 10
    MaxPositions = 1
    MaxEntries = 2
    MaxExits = 1
    MaxOrders = 2
    MaxValue = 40
    Quotas <- MCQuotas
    DailyPct = 3
    DailyWarningPct = 2
    WeeklyPct = 7
    WeeklyWarningPct = 5
    MaxDrawdownPct = 10
    RecoveryPct = 8
    LossWarning = 1
    LossReduced = 2
    LossHalt = 3
    RecoveryWins = 2
    Conditions = {feed, orders}
    Thresholds <- MCThresholds
    MaxCount = 5
    RequireManualReset = TRUE
    Detectors = {"abnormal_price"}
    Results <- MCResults
    Capitals = {0, 1000, 3000}
    SingleLossPct = 5
    SessionLossPct = 10
    StreakLimit = 3
    MinTrades = 4
    ManualReset = TRUE
    MaxTrades = 6
    Risks = {2, 4}
    Equities = {1, 2}
    Stability = 2
    AthFreeze = 3
    HeatFreeze = 2
    ManualFreezes = {1, 4}
    Operators = {o1, o2}
    Cooldown = 2
SYMMETRY MCSymmetry
INVARIANTS
    TypeOK
    NormalStartsAfresh
    LevelCoversTriggers
    RunsOfLossesTrip
    LatchesHold
PROPERTIES
    BreachesHaltTrading
    ApprovalsFitExposure
    FreeOnlyWhenCalm
