SPECIFICATION FairSpec
CONSTANTS
    N = 4
    Bps = 2
    PerFat = 2
    Batch = 3
    Attempts = 2
    Calls <- MCCalls
INVARIANTS
    DeliversFile
    RefusalExplained
PROPERTIES
    Ends
CHECK_DEADLOCK FALSE
