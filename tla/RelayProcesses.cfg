SPECIFICATION Spec
CONSTANTS
  Processes = {p1, p2}
  Requests = {r1, r2}
  None = None
  QueueLimit = 1
  MaxFaults = 2
CHECK_DEADLOCK FALSE
INVARIANTS
  QueuedExact
PROPERTIES
  NoLostWrite
  JournalPromise
  EveryRequestEnds
