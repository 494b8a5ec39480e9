SPECIFICATION RecordSpec
CONSTANTS
  Questions = {q1, q2, q3}
  Adapter <- MCAdapter
  None = None
  MaxTime = 4
  SharedBlocks = FALSE
  IdOrder <- MCIdOrder
  NegRiskMarkets = {q2}
  InHF = {q1, q2, q3}
  PageSize = 1
  PageAttempts = 2
  ScanCap = 2
  q1 = q1
  q2 = q2
  q3 = q3
  n1 = n1
  n2 = n2
  NoLog = NoLog
  Tip = 12
  Chains <- MCChains
  NegRisk = {n1, n2}
  Prepared = {n1}
  MaxReorg = 2
  MaxLag = 1
  Confirmations = {0, 2}
  Window = 4
  Lookback = 9
  Target = 2
  MinRange = 1
  Attempts = 2
  Urls = 2
  Checkpoint = 2
  CachedTo = 4
  History <- MCHistory
  Cutoff = 3
  InSnapshot = {1, 2}
  CategoryOf <- MCCategoryOf
  ResolvedIn <- MCResolvedIn
  DataSources = {"hf", "graphql"}
  MaxExports = 2
  Fleet <- MCFleet
  Equities <- MCEquities
  MaxDays = 2
  MaxProcesses = 2
  MaxTicks = 2
  MaxFills = 1
  NoDispute = 0
  Cids = {"a", "b"}
  Phantoms = {"p"}
  Instants = {1, 2}
  Weights = {1, 2}
  Moves = {2, 9}
  Rates = {1, 3}
  Grid <- MCGrid
  LabelLists <- MCLabelLists
  Ratio = 1
  P = 6
  PrintSizes = {1, 4}
  QuoteSize = 4
  LightSize = 2
  BaseCap = 4
  Lot = 4
  Lambdas = {0, 1}
  LambdaStars = {0, 1}
  MaxMarkets = 2
  MaxDay = 2
  MaxEvents = 3
INVARIANTS
  DisputesJoin
  LifecycleFollowed
  ReadersMatchChain
  WindowsTile
  RowsExact
  CheckpointHolds
  RateFrozen
  SessionReadBack
  NetOfForgone
  CurveIsWorth
PROPERTIES
  ClosedRoundsKept
  ScanEnds
\* Every part comes to an end.
CHECK_DEADLOCK FALSE
