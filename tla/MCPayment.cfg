\* Receipts for one payment of two; polling gives up at the second NOT_FOUND.
SPECIFICATION Spec
CONSTANTS
  guest = guest
  building = building
  v1 = v1
  v2 = v2
  Accounts <- MCAccounts
  Callers <- MCCallers
  Guest = guest
  Building = building
  PollLimit = 2
  Funds = 3
  MaxStroops = 2
  Amounts = {1, 2, 3}
  MaxTries <- MCTries
  MaxKept = 1
CHECK_DEADLOCK FALSE
INVARIANTS
  NothingSpentTwice
  ReceiptsTellTheTruth
  RetryHasSeenThePayment
PROPERTIES
  ImplementsSettlement
  EveryRequestEnds
