\* Two overlapping polls over three ledgers, one client that gets one event per
\* page, a restart in between.
SPECIFICATION ReaderSpec
SYMMETRY PassSymmetry
CONSTANTS
  Blocks <- MCBlocks
  Accounts = {"alice"}
  Passes = {p1, p2}
  FromLedger = 0
  PageLimit = 2
  ScanWindow = 2
  Retention = 1
  MaxScanCalls = 2
  MaxHead = 3
  MaxErrors = 0
  MaxRestarts = 1
  ClientLimit = 1
INVARIANTS
  ReaderTypeOK
  AcceptedIsWhole
  PagesJoin
  RangesCanonical
  CompleteUnlessCut
  ServedInOrder
  CheckpointIsLatest
PROPERTIES
  NeverForgets
