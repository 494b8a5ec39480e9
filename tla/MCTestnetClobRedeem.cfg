CONSTANTS
  Users = {u1}
  Engine = engine
  ONE = 6
  MaxUint = 4
  EngineFunds = 2
  UserFunds = 4
  InitialUSDC <- MCInitialUSDC
  Sides <- MCSides
  None = None
  PriceTick = 1
  MinDelta = 2
  MaxTradeCap = 2
  Collateral = 2
  FirstQuote <- MCFirstQuote
  Trades = 4
SPECIFICATION ClobSpec
INVARIANT RedeemableAtYesWin
