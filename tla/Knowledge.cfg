SPECIFICATION KnowledgeSpec
CONSTANTS
    Subjects = {user}
    Predicates = {likes, corrected_to}
    UserName = user
    CorrectedTo = corrected_to
    Objects <- MCObjects
    Loaded <- MCLoaded
    Offered = {2, 3}
    MaxFacts = 3
    MaxBoots = 2
    Concepts = {"x", "hot", "cold"}
    Relations = {"isa"}
    Inherited = {"isa"}
    LruCapacity = 2
    MaxHops = 3
    MaxPerNight = 1
    MaxEdges = 3
    MaxLearned = 2
    MaxGraphBoots = 2
    IsA = "isa"
    TypeOf = "type_of"
    PartOf = "part_of"
    OppositeOf = "opposite_of"
    Can = "can"
    Cannot = "cannot"
    LivesIn = "lives_in"
    Exclusive = {}
    Living = {}
    Inanimate = {}
    Incompatible <- MCIncompatible
    Providers = {"user", "unknown"}
    DefaultTrust <- MCDefaultTrust
    Claims <- MCClaims
    MaxVerdicts = 3
    Speakers = {d1, d2}
    MaxTurnsKept = 2
    MaxTime = 5
    MaxContexts = 2
    Hosts = {h1}
    Tidied = {h1}
    Lines = {f, g}
    Broken = {g}
    Misread = {f, g}
    Noise = noise
    MaxLength = 2
    Watchlist = {c1}
    Prices = {2, 3}
    StartCash = 40
    BreakerLosses = 2
    DcaAmount = 3
    MaxScans = 2
    MaxBotDays = 1
    MaxBotBoots = 2
    Templates <- MCTemplates
    MaxExecutions = 3
    MaxApprovals = 2
    Periods = {0, 2}
    Offsets = {0, 1}
    MaxReminders = 2
    MaxNow = 3
    MaxReloads = 1
    GoalPriorities = {1, 3}
    MaxGoals = 2
    MaxActions = 2
    MaxEnded = 2
    Services = {1, 2, 3}
    DependencySets <- MCDependencySets
    MaxRestarts = 1
INVARIANTS
    SoundUntilForget
    PendingOnDisk
    LatestTurnsKept
    IndexSound
    PositionsExplained
    PlanCounted
    HandedOutOnce
    GoalsAccounted
    StartAllComplete
PROPERTIES
    LossesExplained
CHECK_DEADLOCK FALSE
