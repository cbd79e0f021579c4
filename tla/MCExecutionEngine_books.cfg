SPECIFICATION Spec
CONSTANTS
  s1 = s1
  s2 = s2
  m1 = m1
  Signals = {s1, s2}
  Markets = {m1}
  MarketOf <- SameMarket
  Balances <- SteadyBalance
  LegAnswers = {"filled", "noBook", "unlisted"}
  SignalMaxAge = 0
  MarketCooldown = 1
  BalanceCheckInterval = 0
  BalanceDropPercent = 10
  TradesBeforeBalanceCheck = 2
  MaxRestarts = 0
INVARIANTS
  BookedWasBought
  GuardCountsExecutedTrades
PROPERTIES
  ImplementsTradeBook
SYMMETRY Interchangeable
