CONSTANTS
  Keeper = keeper
  WebThreads = {}
  MaxTx = 2
  MaxGas = 2
  MaxErrors = 1
  MaxLoss = 1
  GasPerTx = 1
  Equities = {0}
  NoEquity = NoEquity
  Days = 2
  Failures = 1
  Crashes = 2
SPECIFICATION Spec
INVARIANTS CountersMatchLedger TxBudgetHolds BroadcastsBounded KillHaltsSigning
