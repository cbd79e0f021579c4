SPECIFICATION MomentumSpec
CONSTANTS
  MinShares = 2
  Window = 2
  Entry = 1
  MinEntry = 2
  MaxEntry = 3
  Payout = 4
  MaxBet = 10
  MaxOrder = 2
  MaxDailyLoss = 6
  MaxLosses = 1
  PauseTicks = 1
  Books <- MCBooks
  Modes = {"live", "paper"}
  MaxProfit = 1
  MaxFailures = 2
INVARIANTS
  LossLimitHolds
  BetCapHolds
  ChunksFitOrder
  OneBetPerWindow
CHECK_DEADLOCK FALSE
