SPECIFICATION Spec
CONSTANTS
    NCells = 12
    NPrompt = 6
    ImgFrom = 1
    ImgTo = 4
    ImgSpan = 2
    NSink = 1
    K = 3
    RecentBudget = 2
    KTier <- KByTier
    MinRecent = 1
    PollSteps = 2
    KeepSizes = {2}
    Block = 2
    Pad = 4
    MaxSteps = 5
    Modes <- StepModes
INVARIANT KeptSurvive
CHECK_DEADLOCK FALSE
