SPECIFICATION TradingSpec
CONSTANTS
  Users = {u1, u2}
  Engine = engine
  ONE = 4
  MaxUint = 3
  EngineFunds = 2
  UserFunds = 1
  InitialUSDC <- MCInitialUSDC
  Oids = {o1, o2, o3, o4}
  Depths = {0, 2}
  PrintSizes = {1, 2}
  MaxPrints = 3
  MaxTime = 2
  BaseCap = 2
  QuoteSizes = {1, 2}
  LightSizes = {1}
  MaxSize = 2
  Prices = {2, 3}
  Sizes = {0, 1, 2}
  Ticks = {1, 2}
  MinOrderSize = 1
  Cap = 6
  Wraps = {0, 3, 6, 7}
  Sessions = 2
INVARIANTS
  SharesAccounted
  PositionBounded
  NoStrayOrders
  TapeFillsHonest
  ExposureReserved
PROPERTIES
  ClosedMarketOnlyUnwinds
  RedeemedExactlyOnce
  ImplementsCapitalBound
  CallsReturn
