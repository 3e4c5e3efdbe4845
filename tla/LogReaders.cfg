\* Two reader threads poll one upkeep while the chain reorganises once.
SPECIFICATION Spec
CONSTANTS
  Upkeeps = {1}
  MaxBlock = 3
  LOOKBACK = 2
  WINDOW_FACTOR = 1
  Readers = {r1, r2}
  Tags = {0, 1}
  LogCount <- OneLogPerBlock
  REORG_BUFFER = 1
  MAX_PAYLOADS = 2
  Configs <- OneLimit
  MaxReorgs = 1
  MaxReorgDepth = 1
  MaxChanges = 0
INVARIANTS
  TypeOK
  OneForkPerBlock
  DeliveredOnce
  WindowBounded
  PolledLogsAreKnown
  EnqueuedIsKept
CHECK_DEADLOCK FALSE
