SPECIFICATION Spec
CONSTANTS
    BTC = BTC
    ETH = ETH
    Symbols <- MCSymbols
    Quantities <- MCQuantities
    ClosingTimeout = 0
    Stores <- MCStores
    Mandates <- MCMandates
    MaxMandates = 2
    Accounts <- MCAccounts
    Marks <- MCMarks
    LMax = 2
    LSymbolMax = 1
    LLiquidation = 3
INVARIANTS
    ExitsAreLocal
