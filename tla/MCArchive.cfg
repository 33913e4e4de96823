\* One poll at a time over four ledgers, with an RPC error and a restart;
\* liveness needs the fairness of Spec.
SPECIFICATION Spec
CONSTANTS
  Blocks <- PlainBlocks
  Accounts = {"alice"}
  Passes = {p1}
  FromLedger = 0
  PageLimit = 2
  ScanWindow = 2
  Retention = 1
  MaxScanCalls = 2
  MaxHead = 4
  MaxErrors = 1
  MaxRestarts = 1
PROPERTIES
  CatchesUp
