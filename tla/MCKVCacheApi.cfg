SPECIFICATION Spec
CONSTANTS
    a = a
    b = b
    Seqs <- MCSeqs
    NCells = 3
    MaxPos = 2
    NUbatch = 2
    NSwa = 1
    NPad = 2
    Slack = 0
    SwaType = "none"
    Batches <- ApiBatches
    Calls = {"clear", "seq_rm", "seq_keep", "seq_cp", "seq_add"}
    Ranges <- MCRanges
    Deltas <- UpDown
    Divisors = {}
    CpRepeats = FALSE
    CompactPending = FALSE
    ShiftFails = FALSE
    ComputeFails = FALSE
INVARIANTS
    RopeInv
PROPERTIES
    ImplementsLogicalKV
