\* Two wallets, one of which registers within the log; four events over three
\* ledgers; values up to 3 with moduli 5 < 7.
SPECIFICATION Spec
CONSTANTS
  FrModulus = 5
  FpModulus = 7
  Accounts = {"alice", "bob"}
  Sigmas = {1}
  MaxValue = 3
  Poseidon <- MCPoseidon
  Preregistered = {"alice"}
  Stored = {"alice"}
  DepositAmounts = {2}
  MaxSupply = 2
  MaxEvents = 4
  MaxLedger = 3
INVARIANTS
  TypeOK
  ReplayMatchesChain
  SavedStateResumes
  SpendEventsOpen
  CaughtUpSpendsAccepted
  FundsInv
  WalletsAccountForEscrow
PROPERTIES
  ImplementsPlainToken
