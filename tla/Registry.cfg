\* Two upkeeps, two events after the first, a call that fails; head and finality lag apart.
SPECIFICATION FairSpec
CONSTANTS
  Upkeeps = {1, 2}
  LOOKBACK = 1
  MaxBlock = 3
  MaxFailures = 1
INVARIANTS
  TypeOK
  StaleConfigIsReplaceable
PROPERTIES
  ActiveIsFollowed
  FiltersFollow
  ConfigsSettle
