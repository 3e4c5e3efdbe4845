\* One player, the server and the exchange; quotes outlive the price and the round.
SPECIFICATION MarketSpec
CONSTANTS
  Accounts = {alice}
  Contracts = {}
  Deployer = alice
  NoAccount = nobody
  NewOwners = {}
  Signers = {backend}
  InitialAuthorizer = backend
  Backend = backend
  Amounts = {100}
  Donations = {}
  Prices = {1, 2}
  Deadlines = {}
  ROUND_DURATION = 1
  FAUCET_AMOUNT = 7
  LIFETIME = 2
  MaxNow = 3
  MaxRounds = 2
  MaxDonated = 0
  MaxDepth = 1
  MaxAsked = 1
  MaxQuotes = 2
INVARIANTS
  StartPriceIsRecent
  EndPriceFromRound
