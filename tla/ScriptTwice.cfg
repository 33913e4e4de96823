\* A deposit covers the dues twice; polling gives up at the second NOT_FOUND.
SPECIFICATION Spec
CONSTANTS
  Me = me
  Accounts <- MCAccounts
  Callers <- MCCallers
  PollLimit = 2
  Scripts = {"condominium"}
  DepositOf = 2
  Dues = 1
  MaxRuns = 2
  CalmRuns = 2
CHECK_DEADLOCK FALSE
INVARIANTS
  NoDuePaidTwice
