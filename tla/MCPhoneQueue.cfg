SPECIFICATION FairSpec
CONSTANTS
    Queue <- Cells
    MaxRuns = 3
    MaxKills = 1
    MaxReboots = 1
    MaxFills = 1
    MaxPulls = 2
INVARIANTS
    QueueInv
    HostHasAll
PROPERTIES
    DoneIsFinal
    QueueEnds
    ResultsArrive
CHECK_DEADLOCK FALSE
