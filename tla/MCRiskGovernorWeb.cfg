CONSTANTS
  Keeper = keeper
  WebThreads = {web}
  MaxTx = 2
  MaxGas = 3
  MaxErrors = 1
  MaxLoss = 1
  GasPerTx = 1
  Equities = {0}
  NoEquity = NoEquity
  Days = 2
  Failures = 1
  Crashes = 0
SPECIFICATION Spec
INVARIANT RollsSettle
