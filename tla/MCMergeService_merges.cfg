SPECIFICATION MergeFairSpec
CONSTANTS
  m1 = m1
  m2 = m2
  Markets = {m1, m2}
  MinMerge = 1
  MaxHolding = 2
  StartHoldings = {2}
  MaxTrades = 1
  MaxFailures = 1
  MaxRepeats = 1
INVARIANTS
  PromptMergesAreExact
  MergesAreTold
PROPERTIES
  BoxesAreMerged
