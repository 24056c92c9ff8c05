CONSTANTS
    NumFaults = 1
    ConstFactor = 2
    Dummy = Dummy
    MaxViews = 3
    NumInstances = 1
    MaxTransactions = 1
    MaxPauses = 1
    PromptClient = TRUE
    MaxEarly = 1
    EarlyAndPauses = FALSE
    MaxBlocksInView = 1
    ForceRecover = {FALSE}
    Byzantine = 4
    EqualsReturns = {FALSE}
SPECIFICATION Spec
CHECK_DEADLOCK FALSE
VIEW LiveState
INVARIANTS Agreement ExecutedPrepared ViewSupported
PROPERTIES VotesVerified
