SPECIFICATION FairSpec
CONSTANTS
    Cells <- TwoCells
    RetryLimit = 2
    MaxCampaigns = 3
    MaxMishaps = 3
INVARIANTS
    TypeOK
    OneCampaign
    MeasuredAlone
PROPERTIES
    CampaignEnds
    PhoneFreed
CHECK_DEADLOCK FALSE
