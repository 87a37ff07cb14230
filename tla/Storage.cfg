SPECIFICATION StorageSpec
CONSTANTS
    TelegramOn = FALSE
    AutoSaveInterval = 2
    MaxInteractions = 3
    MaxContextTurns = 4
    BatchLimit = 1
    MaxUpdates = 0
    MaxLines = 5
    MaxBoots = 2
    MaxFailedSaves = 1
    Contents = {0, 1}
    Zeroed = 0
    PageSizes = {1, 2}
    SnapNames = {s1, s2}
    MaxMemory = 4
    MaxPages = 4
    MaxSnaps = 2
    MaxTasks = 4
    MaxBursts = 2
    Names = {a, b}
    FileSizes = {1}
    MaxDepth = 2
    MaxUsed = 2
    MaxMounts = 1
    MaxSlots = 2
    MaxLayer = 3
    LookAhead = 2
    MaxQueue = 3
    Answers <- MCAnswers
    Outputs <- MCOutputs
    Registered = {"nas"}
    Writable = {"p"}
    Dangerous = {}
    MaxToolCalls = 2
    FactLists <- MCFactLists
    Secrets = {1, 2}
    Nothing = 0
    Garbled = 3
    Passwords = {"p", "q"}
    EmptyPassword = ""
    MaxShards = 2
    Embeddings = {u, v}
    MostClusters = 3
    MaxVectors = 4
    Interval <- MCInterval
    BootTasks <- MCBootTasks
    BootProcesses = 1
    MaxPids = 2
    Blocks = {0, 1}
    Coins = {doge, pepe}
    StartingBalance = 4
    Fees = {1, 2}
    Grain = 2
    MaxAmount = 3
    MaxQuantity = 1
    MaxTrades = 3
    MaxPaperBoots = 2
    MaxFailedStatements = 1
INVARIANTS
    UnsavedBounded
    TurnAccounted
    PagesAccounted
    TasksAccounted
    SpaceCovered
    MappedWhereLoaded
    ShardsReadBack
    IndexCovers
    KernelKeepsUp
    DatabaseFollows
    BooksMatchHistory
PROPERTIES
    RestartKeepsTrades
    SnapshotsKept
CHECK_DEADLOCK FALSE
