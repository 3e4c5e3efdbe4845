\* One reader thread and an upkeep whose filter or limits change; what is handled in the end.
SPECIFICATION FairSpec
CONSTANTS
  Upkeeps = {1}
  MaxBlock = 2
  LOOKBACK = 1
  WINDOW_FACTOR = 1
  Readers = {r1}
  Tags = {0, 1}
  LogCount <- MoreOfTheFirst
  REORG_BUFFER = 0
  MAX_PAYLOADS = 2
  Configs <- TwoLimits
  MaxReorgs = 1
  MaxReorgDepth = 1
  MaxChanges = 1

  
PROPERTIES
  LogsAreHandled
CHECK_DEADLOCK FALSE
