CONSTANTS
    NumFaults = 1
    ConstFactor = 2
    Dummy = Dummy
    MaxViews = 3
    NumInstances = 2
    MaxTransactions = 1
    MaxPauses = 0
    PromptClient = TRUE
    MaxEarly = 0
    EarlyAndPauses = FALSE
    MaxBlocksInView = 2
    ForceRecover = {FALSE}
    Byzantine = 2
    EqualsReturns = {TRUE, FALSE}
SPECIFICATION Spec
CHECK_DEADLOCK FALSE
VIEW LiveState
INVARIANTS TypeOK ExecutesInOrder RepliedOnce OneBlockPerSlot ExecutedPrepared
           CommittedPrefixLocked
