\* One upkeep with two logs, a pending list of one, two changes of filter or block time.
SPECIFICATION FairSpec
CONSTANTS
  Upkeeps = {1}
  Logs <- TwoLogs
  MaxBlock = 3
  LOOKBACK = 1
  FINALITY = 0
  Days = {1, 3}
  LOGS_BUFFER = 0
  LOGS_BURST = 2
  LAG = 0
  BATCH_SIZE = 1
  MAX_PENDING = 1
  PER_UPKEEP = 1
  MAX_PROPOSALS = 1
  MaxChanges = 2
INVARIANTS
  TypeOK
  RepolledLogsAreTracked
  PendingBounded

  
CHECK_DEADLOCK FALSE
