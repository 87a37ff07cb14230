SPECIFICATION PatientSpec
CONSTANTS
    N = 2
    MaxFails = 3
    LocalMaxFails = 2
    Quota <- MCQuota
    Keys = {key}
    NoKey = none
    MaxCalls = 2
    MaxRequests = 1
    MaxDays = 1
    MaxBoots = 1
PROPERTIES
    RetriedAutomatically
CHECK_DEADLOCK FALSE
