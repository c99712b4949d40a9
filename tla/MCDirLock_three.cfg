SPECIFICATION LockSpec
CONSTANTS
    Procs = {p1, p2, p3}
    Gone = Gone
    NoPid = NoPid
    None = None
    InitialPids = {}
    Attempts = 1
    Polls = 5
    MaxKills = 0
    PollOutlasts = TRUE
SYMMETRY Symmetry
INVARIANTS
    MutualExclusion
CHECK_DEADLOCK FALSE
