SPECIFICATION StateSpec
CONSTANTS
    a = a
    b = b
    Seqs <- MCSeqs
    NCells = 3
    MaxPos = 2
    NUbatch = 2
    NSwa = 1
    NPad = 2
    Slack = 0
    SwaType = "none"
    Batches <- MCBatches
    Calls = {"seq_rm"}
    Ranges <- MCRanges
    Deltas = {}
    Divisors = {}
    CpRepeats = FALSE
    CompactPending = FALSE
    ShiftFails = FALSE
    ComputeFails = FALSE
    NEmbd = 2
    Foreign <- MCForeign
    SavePending = FALSE
    CutShort = TRUE
    MaxReads = 2
INVARIANTS
    StateInv
PROPERTIES
    RestoredExact
    OthersUntouched
    RoundTripCompacts
