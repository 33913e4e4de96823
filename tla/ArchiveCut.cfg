\* Never out of scan calls, one poll, no failures: is every range that is called complete really held?
SPECIFICATION Spec
CONSTANTS
  Blocks <- DistinctBlocks
  Accounts = {"alice"}
  Passes = {p1}
  FromLedger = 0
  PageLimit = 1
  ScanWindow = 2
  Retention = 1
  MaxScanCalls = 20
  MaxHead = 4
  MaxErrors = 0
  MaxRestarts = 0
INVARIANTS
  CompleteMeansHeld
