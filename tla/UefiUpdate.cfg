CONSTANTS
    Arches = {"amd64", "arm64"}
    Machine = "amd64"
    MaxTag = 2
    MaxWrong = 3
    MaxFaults = 2
    MaxCrashes = 1
    Jobs <- MCJobs
    Locals <- MCLocals
SPECIFICATION FairSpec
INVARIANTS Authentic OneRelease
PROPERTIES Implements Ends
CHECK_DEADLOCK FALSE
