SPECIFICATION Spec
CONSTANTS
    TelegramOn = FALSE
    AutoSaveInterval = 2
    MaxInteractions = 4
    MaxContextTurns = 4
    BatchLimit = 1
    MaxUpdates = 0
    MaxLines = 4
    MaxBoots = 2
    MaxFailedSaves = 0
PROPERTIES
    CrashLossLimited
CHECK_DEADLOCK FALSE
