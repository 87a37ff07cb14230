SPECIFICATION FairSpec
CONSTANTS
    TelegramOn = TRUE
    AutoSaveInterval = 1
    MaxInteractions = 1
    MaxContextTurns = 2
    BatchLimit = 1
    MaxUpdates = 1
    MaxLines = 1
    MaxBoots = 1
    MaxFailedSaves = 0
PROPERTIES
    LeavingStopsPolling
CHECK_DEADLOCK FALSE
