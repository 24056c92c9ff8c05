CONSTANTS
    NumFaults = 1
    ConstFactor = 2
    Dummy = Dummy
    MaxViews = 2
    NumInstances = 2
    MaxTransactions = 1
    MaxPauses = 0
    PromptClient = TRUE
    MaxEarly = 0
    EarlyAndPauses = FALSE
SPECIFICATION FairSpec
CHECK_DEADLOCK FALSE
INVARIANTS TypeOK
PROPERTIES EveryViewExecuted EveryTransactionReplied
