\* A player who keeps trying, an owner who may change the authorizer, a vault that is short.
SPECIFICATION FairMarketSpec
CONSTANTS
  Accounts = {alice}
  Contracts = {}
  Deployer = alice
  NoAccount = nobody
  NewOwners = {}
  Signers = {backend, spare}
  InitialAuthorizer = backend
  Backend = backend
  Amounts = {100}
  Donations = {}
  Prices = {1, 2}
  Deadlines = {}
  ROUND_DURATION = 1
  FAUCET_AMOUNT = 7
  LIFETIME = 1
  MaxNow = 2
  MaxRounds = 2
  MaxDonated = 0
  MaxDepth = 1
  MaxAsked = 1
  MaxQuotes = 1
PROPERTIES
  PersistentPlayerSettles
