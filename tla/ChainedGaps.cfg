CONSTANTS
    NumFaults = 1
    ConstFactor = 3
    Dummy = Dummy
    MaxViews = 15
    NumInstances = 0
    MaxTransactions = 1
    MaxPauses = 0
    PromptClient = TRUE
    MaxEarly = 60
    EarlyAndPauses = FALSE
SPECIFICATION LateSpec
CHECK_DEADLOCK FALSE
INVARIANTS Agreement
