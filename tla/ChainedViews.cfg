CONSTANTS
    NumFaults = 1
    ConstFactor = 2
    Dummy = Dummy
    MaxViews = 5
    NumInstances = 0
    MaxTransactions = 1
    MaxPauses = 1
    PromptClient = FALSE
    MaxEarly = 1
    EarlyAndPauses = TRUE
SPECIFICATION Spec
CHECK_DEADLOCK FALSE
VIEW LiveState
INVARIANTS ParentsFirst DirectPrepared
PROPERTIES HighestParent RefinesSigner
