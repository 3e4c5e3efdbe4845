\* Two players share a vault; wallet may refuse a payout and calls back from inside it.
SPECIFICATION Spec
CONSTANTS
  Accounts = {alice, wallet}
  Contracts = {wallet}
  Deployer = wallet
  NoAccount = nobody
  NewOwners = {}
  Signers = {backend}
  InitialAuthorizer = backend
  Amounts = {100}
  Donations = {120}
  Prices = {1, 2}
  Deadlines = {3}
  ROUND_DURATION = 1
  FAUCET_AMOUNT = 220
  MaxNow = 1
  MaxRounds = 2
  MaxDonated = 120
  MaxDepth = 2
INVARIANTS
  StakesAccounted
  ListMatchesRounds
  ZeroSum
  VaultEquation
PROPERTIES
  ImplementsGame
  RoundRunsFullDuration
  QueuedOnlyWhenUnderfunded
\* The clock, the rounds and the donations are bounded: the last state has no successor.
CHECK_DEADLOCK FALSE
