SPECIFICATION Spec
CONSTANTS
    Builds <- MCBuilds
    Modes = {"warn", "enforce"}
    MaxFaults = 2
    MaxCrashes = 1
INVARIANTS
    ManifestNeverStale
    SumHasItsBlkSum
    AllOrNothing
    BootablePair
    PowerLossReachesKernelOnly
