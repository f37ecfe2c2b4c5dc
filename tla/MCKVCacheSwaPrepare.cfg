SPECIFICATION Spec
CONSTANTS
    a = a
    b = b
    Seqs <- OneSeq
    NCells = 4
    MaxPos = 6
    NUbatch = 2
    NSwa = 2
    NPad = 2
    Slack = 0
    SwaType = "standard"
    Batches <- Batches1To4
    Calls = {"seq_rm"}
    Ranges <- EndRanges
    Deltas <- Down
    Divisors = {}
    CpRepeats = FALSE
    CompactPending = FALSE
    ShiftFails = FALSE
    ComputeFails = FALSE
INVARIANTS
    RestoreKeepsWindow
