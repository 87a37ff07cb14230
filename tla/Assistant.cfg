SPECIFICATION FairSpec
CONSTANTS
    TelegramOn = TRUE
    AutoSaveInterval = 2
    MaxInteractions = 2
    MaxContextTurns = 4
    BatchLimit = 2
    MaxUpdates = 2
    MaxLines = 1
    MaxBoots = 2
    MaxFailedSaves = 1
INVARIANTS
    SharedAccessExclusive
    ReplyFollowsQuestion
    DeliveredOnceInOrder
PROPERTIES
    IsMailbox
    ShutdownCompletes
    UpdatesHandled
CHECK_DEADLOCK FALSE
