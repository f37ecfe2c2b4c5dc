SPECIFICATION FairReclaimSpec
CONSTANTS
    a = a
    b = b
    Seqs <- MCSeqs
    Seq0 = a
    NCells = 5
    MaxPos = 4
    NLayers = 2
    Chunk = 2
    DefaultChunk = 3
    InitCells <- MCInitCells
    PageSize = 4
    Tensors <- MCTensors
INVARIANTS
    UnreadIntact
    RowsFollowCells
    MetadataExact
    OnlyDeadReleased
    AllDeadReleased
PROPERTY
    Reclaims
CHECK_DEADLOCK FALSE
