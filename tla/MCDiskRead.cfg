SPECIFICATION FairReadSpec
CONSTANTS
    Kinds <- MCKinds
    Lbas <- MCLbas
    MaxCount = 5
    DefaultChunk = 4
    ChunkLimit = 5
    Heads = 2
    Spt = 3
    Cyls = 300
INVARIANTS
    ReadIsExact
    WithinInterface
    FinalAfterTwo
PROPERTIES
    Returns
