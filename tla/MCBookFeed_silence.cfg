SPECIFICATION FeedFairSpec
CONSTANTS
  m1 = m1
  Markets = {m1}
  Prices = {1}
  MaxSize = 1
  StartBook <- OneLevel
  HeartbeatTimeout = 2
  CheckInterval = 1
  MaxReconnectAttempts = 2
  MaxChanges = 0
  MaxNoise = 1
  MaxWire = 2
PROPERTIES
  SilenceIsNoticed
