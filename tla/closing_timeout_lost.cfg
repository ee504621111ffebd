SPECIFICATION Spec
CONSTANTS
    BTC = BTC
    Symbols <- MCSymbols
    Quantities <- MCQuantities
    ClosingTimeout = 2
    Stores <- MCStores
    FaultModels <- MCCrashModel
INVARIANTS
    ClosingSurvivesCrashes
