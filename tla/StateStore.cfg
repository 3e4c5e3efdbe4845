\* One work id is reported, asked for, written, cleaned and performed; the node stops once.
SPECIFICATION FairSpec
CONSTANTS
  Works = {w1}
  Callers = {c1}
  Slots = {s1}
  BATCH_SIZE = 1
  RETENTION = 1
  DBFails = TRUE
  MaxNow = 2
  MaxStops = 1
INVARIANTS
  TypeOK
  RecordsAreTracked
  
PROPERTIES
  PendingIsWritten
CHECK_DEADLOCK FALSE
