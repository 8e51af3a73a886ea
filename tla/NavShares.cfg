SPECIFICATION HSpec
CONSTANTS
  Members = {alice, bob}
  Proposals = {p1, p2}
  Amounts = {1}
  SupplyCap = 3
  MaxNow = 3
  MaxJournal = 4
  Unsettled = Unsettled
SYMMETRY Symmetry
INVARIANTS
  CheckpointsExact
  RetentionExact
  NoUnderflow
PROPERTIES
  PromiseKept
CHECK_DEADLOCK FALSE
