SPECIFICATION FairSpec
CONSTANTS
  btc = btc
  eth = eth
  Symbols = {btc, eth}
  Prices = {1, 2}
  Setups <- AllSetups
  MaxSockets = 3
  MaxFaults <- FaultsPerSetup
  Window = 7
  EntryStart = 1
  EntryEnd = 3
  LongLeft = 6
  LongTtl = 2
  ShortTtl = 1
INVARIANTS
  SignalsExpireInWindow
  OpensAreEarly
  FeedsKeepOneChain
PROPERTIES
  PricesComeBack
  OpensComeBack
