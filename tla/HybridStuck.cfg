\* No failures, no indexer: does a client that was away too long catch up?
SPECIFICATION HybridSpec
CONSTANTS
  Blocks <- SingleBlocks
  PageLimit = 2
  ScanWindow = 2
  Retention = 2
  MaxHead = 5
  ClientFrom = 2
  SeamMargin = 1
  MaxFailures = 0
PROPERTIES
  CatchesUpOnRpcAlone
