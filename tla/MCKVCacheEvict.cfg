SPECIFICATION Spec
CONSTANTS
    a = a
    b = b
    Seqs <- MCSeqs
    NCells = 3
    MaxPos = 2
    NUbatch = 1
    NSwa = 1
    NPad = 2
    Slack = 0
    SwaType = "none"
    Batches <- OwnBatches
    Calls = {"seq_rm", "rm_cells", "compact", "seq_add"}
    Ranges <- TailRanges
    Deltas <- Down
    Divisors = {}
    CpRepeats = FALSE
    CompactPending = FALSE
    ShiftFails = FALSE
    ComputeFails = TRUE
INVARIANTS
    PlanStillValid
    RestoreExact
PROPERTIES
    DenseStaysDense
    CompactKeepsEntries
