SPECIFICATION MessagingSpec
CONSTANTS
    Capacity = 3
    MaxSent = 5
    Hosts = {"h1", "h2"}
    MaxPerHost = 2
    MaxTotal = 2
    MaxRetries = 1
    MaxNames = 1
    MaxSockets = 2
    MaxRules = 1
    Devices = {d1, d2, d3}
    FactIds = {f}
    Priorities = {0, 1}
    MaxClock = 2
    MaxQueued = 2
    Concepts = {x, y}
    Relations = {isa, has}
    Inherited = {isa}
    LruCapacity = 2
    MaxHops = 3
    MaxPerNight = 1
    MaxEdges = 2
    MaxLearned = 2
    MaxGraphBoots = 2
    LabServices = {m1, m2}
    LabDevices = {dev1}
    NoDevice = dev0
    MaxLabRestarts = 1
    MaxMisses = 2
    MaxFailovers = 2
    Names = {"root", "system"}
    Grants <- MCGrants
    Paths = {"path"}
    FlagSets = {{"read"}}
    Timeout = 1
    MaxTokens = 2
INVARIANTS
    NotShared
    BestVersionHeld
    AnswersCurrent
    MovesAfterRestarts
    OnlyTrustedElevated
PROPERTIES
    IsChannel
CHECK_DEADLOCK FALSE
