SPECIFICATION BoxBotSpec
CONSTANTS
  Window = 3
  EntryStart = 1
  EntryEnd = 2
  MaxChunks = 2
  Price <- TwoEach
  Payout = 5
  MaxDailyLoss = 3
  MaxPartialFills = 2
  MaxProfit = 1
  MaxFailures = 1
INVARIANTS
  GuaranteedProfitIsHedged
