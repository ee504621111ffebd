SPECIFICATION Spec
CONSTANTS
    BTC = BTC
    Symbols <- MCSymbols
    Quantities <- MCQuantities
    ClosingTimeout = 2
    Stores <- MCStores
    FaultModels <- MCFaultModels
INVARIANTS
    TypeOK
    RestartLosesNothing
    ClosingIsTracked
PROPERTIES
    ReportsExactlyTheLate
    LifecycleContract
