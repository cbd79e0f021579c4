SPECIFICATION FairSpec
CONSTANTS
  m1 = m1
  Markets = {m1}
  Prices = {1, 3}
  MaxSize = 1
  StartBook <- FullBook
  HeartbeatTimeout = 1
  CheckInterval = 1
  MaxReconnectAttempts = 2
  MaxChanges = 1
  MaxNoise = 1
  MaxWire = 2
  BoxValue = 5
  Buffer = 1
  MinEdge = 1
  MaxPositionSize = 1
INVARIANTS
  CacheIsBook
  CalmSignalsAreTrue
PROPERTIES
  BoxIsSignalled
  FeedComesBack
