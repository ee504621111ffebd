SPECIFICATION Spec
CONSTANTS
    O1 = O1
    T1 = T1
    NoTid = NoTid
    Orders <- MCOrders
    Fills <- MCFills
    OrderSize <- MCOrderSize
    MaxBuffered = 2
    FaultModels <- MCFaultModels
INVARIANTS
    TypeOK
    ReportedOnce
    TrackedOrdersMissNothing
    FilledIsWhatFillsSay
PROPERTIES
    GivesUpOnlyInSilence
    OverdueOrdersSettle
