CONSTANTS
    NumFaults = 1
    ConstFactor = 2
    Dummy = Dummy
    MaxViews = 2
    NumInstances = 0
    MaxTransactions = 1
    MaxPauses = 0
    PromptClient = TRUE
    MaxEarly = 0
    EarlyAndPauses = FALSE
    MaxBlocksInView = 1
    ForceRecover = {FALSE}
    Byzantine = 4
    EqualsReturns = {FALSE}
SPECIFICATION FairSpec
CHECK_DEADLOCK FALSE
PROPERTIES EverySlotExecuted
