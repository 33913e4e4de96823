\* The same, smaller: does a client with an indexer catch up?
SPECIFICATION HybridSpec
CONSTANTS
  Blocks <- SingleBlocks
  PageLimit = 1
  ScanWindow = 2
  Retention = 2
  MaxHead = 5
  ClientFrom = 2
  SeamMargin = 1
  MaxFailures = 1
PROPERTIES
  ClientCatchesUp
