\* The message of GlowStick.sol:93 against a bet placed during the payout of another.
SPECIFICATION Spec
CONSTANTS
  Accounts = {wallet}
  Contracts = {wallet}
  Deployer = wallet
  NoAccount = nobody
  NewOwners = {}
  Signers = {backend}
  InitialAuthorizer = backend
  Amounts = {100}
  Donations = {120}
  Prices = {1, 2}
  Deadlines = {3}
  ROUND_DURATION = 1
  FAUCET_AMOUNT = 7
  MaxNow = 3
  MaxRounds = 3
  MaxDonated = 120
  MaxDepth = 2
INVARIANTS
  ActiveRoundNotReplaced
\* The clock, the rounds and the donations are bounded: the last state has no successor.
CHECK_DEADLOCK FALSE
