SPECIFICATION Spec
CONSTANTS
  s1 = s1
  s2 = s2
  m1 = m1
  Signals = {s1, s2}
  Markets = {m1}
  MarketOf <- SameMarket
  SourceOf <- AllSports
  StartCost <- NothingHeld
  StartExposure = 6
  Balances = {40}
  DailyLosses = {0}
  LatencyVolumes = {20}
  Phase2Threshold = 40
  Phase3Threshold = 1000
  WindowsForPhase2 = 1
  WindowsForPhase3 = 2
  MaxOrderShares = 2
  MaxRestarts = 1
INVARIANTS
  TradeWithinCap
  ExposureReconciles
PROPERTIES
  CapHeldUnlessOverlapped
  ImplementsTradeBook
SYMMETRY Interchangeable
CHECK_DEADLOCK FALSE
