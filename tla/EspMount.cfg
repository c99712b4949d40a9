CONSTANTS
    a = a
    b = b
    efi = efi
    Procs <- MCProcs
    Signalled <- MCSignalled
    NDevs = 2
    None = None
    Jobs <- MCJobs
    Found <- MCFound
    Shared <- MCShared
SPECIFICATION FairMountSpec
INVARIANTS
    UnmountsOwnOnce
    RegisteredAreUndone
PROPERTIES
    SignalEnds
CHECK_DEADLOCK FALSE
