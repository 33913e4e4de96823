\* Two accounts with an auditor each, two events, two requests, one bundle.
SPECIFICATION Spec
SYMMETRY SigmaSymmetry
CONSTANTS
  Accounts = {"alice", "bob"}
  Token = "token"
  Contracts = {"token", "other"}
  Root <- MCRoot
  Okm <- MCOkm
  Unusable <- MCUnusable
  MaxRejections = 1
  AuditorOf <- MCAuditorOf
  AuditorKeys <- MCAuditorKeys
  Sigmas = {s1, s2}
  Ephemerals <- MCEphemerals
  Amounts = {1, 2}
  Funds <- MCFunds
  DeskKeys <- MCDeskKeys
  Coordinates <- MCCoordinates
  RowForms <- MCRowForms
  ServedAs <- MCServedAs
  Strays <- MCStrays
  IndexerLag = 1
  ResolveLimit = 2
  MaxSpends = 2
  MaxRequests = 2
  MaxBundles = 1
CHECK_DEADLOCK FALSE
INVARIANTS
  AcceptedIsTrue
  HonestIsAccepted
  SourcesAgree
  AuditIsRight
  PadsKeptApart
