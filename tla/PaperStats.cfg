SPECIFICATION PaperSpec
CONSTANTS
    Coins = {doge, pepe}
    StartingBalance = 4
    Fees = {1, 2}
    Grain = 2
    MaxAmount = 3
    MaxQuantity = 1
    MaxTrades = 3
    MaxPaperBoots = 3
    MaxFailedStatements = 1
INVARIANTS
    SalesHaveACost
CHECK_DEADLOCK FALSE
