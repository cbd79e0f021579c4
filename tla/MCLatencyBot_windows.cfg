SPECIFICATION LatencyBotFairSpec
CONSTANTS
  Window = 2
  MinRemaining = 1
  MaxRemaining = 1
  HighPrice = 2
  Payout = 3
  MaxPosition = 1
  MaxDailyLoss = 2
  MaxSession = 2
  MaxLosses = 1
  PauseTicks = 3
  DivergenceTicks = 0
  Views = {"near", "apart", "stale"}
  Toggled = {"latency"}
  MaxProfit = 1
  MaxFailures = 1
INVARIANTS
  LossLimitsHold
  BookingNeverFlatters
  StreakPauseHolds
  OneSidePerWindow
  PositionCapHolds
PROPERTIES
  WindowsGoOn
  DivergenceEnds
