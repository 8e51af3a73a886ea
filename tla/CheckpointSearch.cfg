SPECIFICATION SearchSpec
CONSTANTS
  Histories <- MCHistories
  TimePoints <- MCTimePoints
INVARIANTS
  LookupExact
PROPERTIES
  RangeHalves
CHECK_DEADLOCK FALSE
