SPECIFICATION FairSpec
CONSTANTS
  thunder = thunder
  lakers = lakers
  michigan = michigan
  duke = duke
  okc = okc
  blue = blue
  state = state
  Writers = {"sports", "latency", "alpha"}
  MaxRows = 2
  MaxFaults = 2
  Schedule <- MCSchedule
  Home <- MCHome
  Away <- MCAway
  Listed <- MCListed
  Title <- MCTitle
  Means <- MCMeans
  Known = {thunder, lakers, okc}
  KnownTeams = {thunder, lakers}
  PartOf <- MCPartOf
  Alike <- MCAlike
  SchoolIn <- MCSchoolIn
  MinEntry <- MCMinEntry
  MaxEntry <- MCMaxEntry
  MinEdge <- MCMinEdge
  GameTime = 40
  MinLeft = 4
  Chances = {60}
  Lefts = {3, 5, 30}
  Asks = {25, 50}
  StaleAge = 1
INVARIANTS
  OppositeSignalsAreCheap
  SidesAreRight
  HistoryFollows
PROPERTIES
  LiveGamesAreLookedAt
CHECK_DEADLOCK FALSE
