SPECIFICATION FairLockSpec
CONSTANTS
    Procs = {p1, p2}
    Gone = Gone
    NoPid = NoPid
    None = None
    InitialPids <- MCInitialPids
    Attempts = 1
    Polls = 5
    MaxKills = 1
    PollOutlasts = TRUE
INVARIANTS
    MutualExclusion
PROPERTIES
    SomeoneGetsIn
CHECK_DEADLOCK FALSE
