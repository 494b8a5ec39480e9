SPECIFICATION WebSpec
CONSTANTS
  Clients = {c1}
  Warm = warm
  Lifespan = lifespan
  MaxThreads = 3
  MaxGovernors = 3
  a = a
  b = b
  t1 = t1
  t2 = t2
  Trades = {t1, t2}
  Fleet <- MCFleet
  MarketOf <- MCMarketOf
  Deployed <- MCDeployed
  Confirmations = 2
  Lookback = 1
  MaxReorg = 1
  MaxLag = 1
  MaxHead = 5
  Sessions = 2
  Disputes = {d1, d2}
  NegRiskMarkets = {d2}
  Newest = 1
  Requests = {r1, r2}
  MaxScans = 3
INVARIANTS
  OneKeeperRuns
  LastTickAfterStop
  GateIsGovernor
  FillsMatchChain
  OneScan
PROPERTIES
  ShutdownEndsKeeper
  TradesDelivered
  DisputeNoticed
\* The bounds on threads, governors and scans run out.
CHECK_DEADLOCK FALSE
