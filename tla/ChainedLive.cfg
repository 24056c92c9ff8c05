CONSTANTS
    NumFaults = 1
    ConstFactor = 2
    Dummy = Dummy
    MaxViews = 5
    NumInstances = 1
    MaxTransactions = 1
    MaxPauses = 0
    PromptClient = TRUE
    MaxEarly = 0
    EarlyAndPauses = TRUE
SPECIFICATION FairSpec
CHECK_DEADLOCK FALSE
INVARIANTS RepliedOnce
PROPERTIES EveryBlockExecuted
