CONSTANTS
    NumFaults = 1
    ConstFactor = 2
    Dummy = Dummy
    MaxViews = 3
    NumInstances = 2
    MaxTransactions = 1
    MaxPauses = 0
    PromptClient = TRUE
    MaxEarly = 20
    EarlyAndPauses = TRUE
    MaxBlocksInView = 2
    ForceRecover = {TRUE}
    Byzantine = 0
    EqualsReturns = {FALSE}
SPECIFICATION LateSpec
CHECK_DEADLOCK FALSE
INVARIANTS Agreement
