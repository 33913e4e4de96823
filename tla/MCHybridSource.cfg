\* A window of two ledgers, a seam one above its floor, pages of two events.
SPECIFICATION HybridSpec
CONSTANTS
  Blocks <- MCBlocks
  PageLimit = 2
  ScanWindow = 2
  Retention = 2
  MaxHead = 7
  ClientFrom = 2
  SeamMargin = 1
  MaxFailures = 2
INVARIANTS
  DeliveredInOrder
  NothingElseLost
