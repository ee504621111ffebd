SPECIFICATION Spec
CONSTANTS
    EntrySize = 2
    MinFillPct <- MCMinFillPct
    MaxResubmits = 2
    MaxRetries = 2
    StopRetries = 2
    MaxOrders = 3
    ClientCancels = {1}
INVARIANTS
    AcceptedPartialsAreCovered
CHECK_DEADLOCK FALSE
