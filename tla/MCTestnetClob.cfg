CONSTANTS
  Users = {u1}
  Engine = engine
  ONE = 6
  MaxUint = 2
  EngineFunds = 2
  UserFunds = 1
  InitialUSDC <- MCInitialUSDC
  Sides <- MCSides
  None = None
  PriceTick = 1
  MinDelta = 2
  MaxTradeCap = 2
  Collateral = 2
  FirstQuote <- MCFirstQuote
  Trades = 1
SPECIFICATION FairClobSpec
INVARIANTS StandingQuoteKnown QuoteBacked
PROPERTIES DebounceKeepsWanted DoubtEnds
