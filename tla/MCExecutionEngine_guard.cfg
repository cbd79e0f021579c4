SPECIFICATION FairSpec
CONSTANTS
  s1 = s1
  s2 = s2
  m1 = m1
  Signals = {s1}
  Markets = {m1}
  MarketOf <- SameMarket
  Balances <- AnyBalance
  LegAnswers = {"filled", "killed"}
  SignalMaxAge = 0
  MarketCooldown = 1
  BalanceCheckInterval = 1
  BalanceDropPercent = 15
  TradesBeforeBalanceCheck = 1
  MaxRestarts = 1
PROPERTIES
  HandlersFinish
  DropHalts
