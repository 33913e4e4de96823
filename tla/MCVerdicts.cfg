\* One archive on two isolates, two runs, four events.
SPECIFICATION Spec
CONSTANTS
  FrModulus = 7
  FpModulus = 11
  Accounts = {"alice", "building"}
  Sigmas = {1}
  MaxValue = 4
  Poseidon <- MCPoseidon
  Judged = "alice"
  Building = "building"
  Sigma = 1
  Amount = 1
  Isolates = {1, 2}
  Runs = {1, 2}
  Kinds <- MCKinds
  MaxEvents = 4
  MaxFailures = 1
CHECK_DEADLOCK FALSE
INVARIANTS
  NobodyWaitsInVain
  AcceptedIsTrue
  HonestRefusedOnlyIfMoved
  AuditIsExact
  SabotageIsShown
