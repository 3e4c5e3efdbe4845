\* One player whose code calls the contract from inside its transfers, three rounds;
\* the player is the owner, who may renounce, at the same time.
SPECIFICATION Spec
CONSTANTS
  Accounts = {wallet}
  Contracts = {wallet}
  Deployer = wallet
  NoAccount = nobody
  NewOwners = {nobody}
  Signers = {backend}
  InitialAuthorizer = backend
  Amounts = {100}
  Donations = {120}
  Prices = {1, 2}
  Deadlines = {3}
  ROUND_DURATION = 1
  FAUCET_AMOUNT = 7
  MaxNow = 3
  MaxRounds = 3
  MaxDonated = 120
  MaxDepth = 2
INVARIANTS
  TypeOK
  PayoutsAccounted
  TreasuryAccounted
  FaucetOnce
PROPERTIES
  ResultsAreFinal
  RenouncedForGood
\* The clock, the rounds and the donations are bounded: the last state has no successor.
CHECK_DEADLOCK FALSE
