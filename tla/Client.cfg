CONSTANTS
    NumFaults = 1
    ConstFactor = 2
    Dummy = Dummy
    NumInstances = 2
    SkipFirst = TRUE
    FindMisses = {TRUE, FALSE}
SPECIFICATION FairSpec
CHECK_DEADLOCK FALSE
INVARIANTS CompletedByQuorum DealtInTurn StopsUnlessRaced
PROPERTIES Ends
