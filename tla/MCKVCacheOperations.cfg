SPECIFICATION FairSpec
CONSTANTS
    a = a
    b = b
    Seqs <- MCSeqs
    NCells = 2
    MaxPos = 2
    NUbatch = 1
    NSwa = 1
    NPad = 2
    Slack = 0
    SwaType = "none"
    Batches <- OwnBatches
    Calls = {"clear", "seq_rm", "seq_keep", "seq_cp", "seq_add", "seq_div"}
    Ranges <- TailRanges
    Deltas <- Down
    Divisors = {2}
    CpRepeats = FALSE
    CompactPending = FALSE
    ShiftFails = TRUE
    ComputeFails = TRUE
INVARIANTS
    IndexInv
PROPERTIES
    AbortLeavesNoTrace
    OperationsAsPromised
    DecodeReturns
