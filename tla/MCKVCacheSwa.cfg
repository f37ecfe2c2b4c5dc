SPECIFICATION Spec
CONSTANTS
    a = a
    b = b
    Seqs <- MCSeqs
    NCells = 3
    MaxPos = 4
    NUbatch = 2
    NSwa = 2
    NPad = 2
    Slack = 0
    SwaType = "standard"
    Batches <- OwnBatches
    Calls = {"seq_rm"}
    Ranges <- TailRanges
    Deltas <- Down
    Divisors = {}
    CpRepeats = FALSE
    CompactPending = FALSE
    ShiftFails = FALSE
    ComputeFails = FALSE
INVARIANTS
    PositionsContiguous
    MaskExact
    SeesItsWindow
PROPERTIES
    ImplementsLogicalKV
