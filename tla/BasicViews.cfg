CONSTANTS
    NumFaults = 1
    ConstFactor = 2
    Dummy = Dummy
    MaxViews = 3
    NumInstances = 3
    MaxTransactions = 1
    MaxPauses = 1
    PromptClient = TRUE
    MaxEarly = 3
    EarlyAndPauses = FALSE
SPECIFICATION Spec
CHECK_DEADLOCK FALSE
VIEW LiveState
INVARIANTS Agreement ExecutedLocked NeverAhead VotesMatch RepliedOnce
PROPERTIES HighestParent RefinesSigner
