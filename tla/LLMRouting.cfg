SPECIFICATION FairSpec
CONSTANTS
    N = 2
    MaxFails = 2
    LocalMaxFails = 2
    Quota <- MCQuota
    Keys = {key}
    NoKey = none
    MaxCalls = 2
    MaxRequests = 2
    MaxDays = 1
    MaxBoots = 2
INVARIANTS
    NoProviderSkipped
    OthersFirst
    QuotaRespected
    TablesAgree
PROPERTIES
    EveryMessageAnswered
CHECK_DEADLOCK FALSE
