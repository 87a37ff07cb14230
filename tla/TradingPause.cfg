SPECIFICATION BotSpec
CONSTANTS
  Watchlist = {c1,c2}
  Prices = {3}
  StartCash = 40
  BreakerLosses = 2
  DcaAmount = 3
  MaxScans = 2
  MaxBotDays = 1
  MaxBotBoots = 2
INVARIANT PauseNeedsPriceMove
CHECK_DEADLOCK FALSE
