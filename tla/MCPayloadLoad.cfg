SPECIFICATION FairSpec
CONSTANTS
    Size <- MCSize
    B = 2
    Batch = 2
    PerSector = 2
    U32 = 8
    Tries = 2
    BadLimit = 1
    Attempts = 2
    Chunk = 2
    TableLies = TRUE
    Partial = TRUE
    Overwrites = 1
INVARIANTS
    EnforceRunsOnlyRight
    CountsEveryWrong
    OnlyEnforceRefuses
PROPERTIES
    BootEnds
CHECK_DEADLOCK FALSE
