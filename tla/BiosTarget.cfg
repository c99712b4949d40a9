CONSTANTS
    U32 = 16
    CmdlineMax = 4
    Width <- MCWidth
    Tables <- MCTables
    Changed <- MCChanged
    Manual <- MCManual
    Release <- MCRelease
    Images <- MCImages
    Mounts <- MCMounts
    Disks <- MCDisks
    Asked <- MCDefaults
    Lists <- MCLists
    Self = 2
    MaxOps = 3
SPECIFICATION Spec
INVARIANTS PairStarts FindsESP
PROPERTIES WriteSafe ChunkKept
CHECK_DEADLOCK FALSE
