\* A call for two work ids during a cleanup.
SPECIFICATION Spec
CONSTANTS
  Works = {w1, w2}
  Callers = {c1}
  Slots = {s1}
  BATCH_SIZE = 1
  RETENTION = 1
  DBFails = FALSE
  MaxNow = 2
  MaxStops = 0
INVARIANTS
  PerformedIsKnown
CHECK_DEADLOCK FALSE
